---- MODULE Spec2Model ----
(***************************************************************************)
(* Failure-first testing agent: the schema-driven edge-case generator      *)
(* (input_generation/edge_cases.py), the failure classifier                *)
(* (failure_detection/rules.py) and the report builder                     *)
(* (reporting/report.py).                                                  *)
(*                                                                         *)
(* Python values are tagged records [t, v].  A Python str is a sequence of *)
(* one-character strings, so that lower(), `in`, split(), startswith() and *)
(* sorted() are computed character by character.  A Python int or float is *)
(* a sign and six limbs in base 10^5 (four integer limbs, two fractional), *)
(* so that 2^63 and 1e-10 are both exact.  A dict is the ordered sequence  *)
(* of its items.  A shared mutable dict (a catalog literal, a caller's     *)
(* override value) is a cell of `heap`, and a value refers to it by Ref.   *)
(***************************************************************************)
EXTENDS Integers, Sequences, FiniteSets, TLC

VARIABLES
  schema,           \* the schema the generator functions are called with
  field_overrides,  \* the overrides of the last generate_sample_object call
  op,               \* the last generator function called
  ret,              \* what it returned, or the exception it raised
  heap,             \* contents of the shared mutable dicts
  calls,            \* number of generator calls made so far
  requests,         \* the requests run has sent, each as it was when sent
  reply,            \* what the transport did with the last request sent
  result,           \* the HttpExecutionResult returned for it, or the one classified
  classification,   \* the FailureClassification returned for it
  entries,          \* the list of ExecutionLogEntry collected by a scan
  report,           \* the last report generated from entries
  console,          \* what the command line has shown for the report
  scans,            \* scan_manager.scans: the stored scan dicts, by scan id
  tasks,            \* the position of the background run_scan of every scan started
  handler,          \* the request the event loop is handling, and its locals
  response,         \* the last response the service sent
  deleted           \* for a scan delete_scan removed, where its run_scan was then

genVars == <<schema, field_overrides, op, ret, heap, calls>>
clsVars == <<requests, reply, result, classification>>
repVars == <<entries, report, console>>
svcVars == <<scans, tasks, handler, response, deleted>>
vars == <<schema, field_overrides, op, ret, heap, calls, requests, reply, result,
          classification,
          entries, report, console, scans, tasks,
          handler, response, deleted>>

(***************************************************************************)
(* Python values                                                           *)
(***************************************************************************)
None == [t |-> "none", v |-> 0]
Bool(b) == [t |-> "bool", v |-> b]
Str(s) == [t |-> "str", v |-> s]
Bytes(s) == [t |-> "bytes", v |-> s]
List(l) == [t |-> "list", v |-> l]
Dict(d) == [t |-> "dict", v |-> d]
Ref(c) == [t |-> "ref", v |-> c]
KV(k, x) == [k |-> k, v |-> x]

Fin(neg, mag) == [k |-> "fin", neg |-> neg, mag |-> mag]
IntV(n) == [t |-> "int", v |-> Fin(n < 0, <<0, 0, 0, IF n < 0 THEN -n ELSE n, 0, 0>>)]
BigInt(neg, ip) == [t |-> "int", v |-> Fin(neg, ip \o <<0, 0>>)]
FloatV(neg, ip, fp) == [t |-> "float", v |-> Fin(neg, ip \o fp)]
Inf(neg) == [t |-> "float", v |-> [k |-> "inf", neg |-> neg, mag |-> <<>>]]
NaN == [t |-> "float", v |-> [k |-> "nan", neg |-> FALSE, mag |-> <<>>]]

IsNumber(x) == x.t \in {"int", "float"}
IsZeroMag(m) == \A i \in 1..Len(m) : m[i] = 0
MagLT(a, b) == \E i \in 1..Len(a) : a[i] < b[i] /\ \A j \in 1..(i - 1) : a[j] = b[j]
Sign(n) == IF IsZeroMag(n.mag) THEN 0 ELSE IF n.neg THEN -1 ELSE 1
FinLT(a, b) ==
  IF Sign(a) # Sign(b) THEN Sign(a) < Sign(b)
  ELSE IF Sign(a) = 1 THEN MagLT(a.mag, b.mag)
  ELSE IF Sign(a) = -1 THEN MagLT(b.mag, a.mag)
  ELSE FALSE
\* Python's a < b and a <= b on ints and floats; every comparison with nan is False
NumLT(a, b) ==
  IF a.v.k = "nan" \/ b.v.k = "nan" THEN FALSE
  ELSE IF a.v.k = "inf" /\ b.v.k = "inf" THEN a.v.neg /\ ~b.v.neg
  ELSE IF a.v.k = "inf" THEN a.v.neg
  ELSE IF b.v.k = "inf" THEN ~b.v.neg
  ELSE FinLT(a.v, b.v)
NumLE(a, b) == a.v.k # "nan" /\ b.v.k # "nan" /\ ~NumLT(b, a)
\* the TLA+ integer of a small Python int
IntOf(x) == (IF x.v.neg THEN -1 ELSE 1) * (x.v.mag[3] * 100000 + x.v.mag[4])

\* Python truthiness of a value
Truthy(x) ==
  CASE x.t = "none" -> FALSE
    [] x.t = "bool" -> x.v
    [] x.t \in {"str", "bytes", "list", "dict"} -> Len(x.v) > 0
    [] x.t \in {"int", "float"} -> x.v.k # "fin" \/ ~IsZeroMag(x.v.mag)
    [] OTHER -> TRUE

(***************************************************************************)
(* dict operations on the ordered item sequence                            *)
(***************************************************************************)
HasKey(d, k) == \E i \in 1..Len(d) : d[i].k = k
KeyIndex(d, k) == CHOOSE i \in 1..Len(d) : d[i].k = k
\* d.get(k, default)
Get(d, k, default) == IF HasKey(d, k) THEN d[KeyIndex(d, k)].v ELSE default
\* d[k] = x: an existing key keeps its position, a new key is appended
Put(d, k, x) ==
  IF HasKey(d, k) THEN [d EXCEPT ![KeyIndex(d, k)] = KV(k, x)] ELSE Append(d, KV(k, x))
Keys(d) == [i \in 1..Len(d) |-> d[i].k]

(***************************************************************************)
(* str operations                                                          *)
(***************************************************************************)
UpperAlpha == <<"A", "B", "C", "D", "E", "F", "G", "H", "I", "J", "K", "L", "M",
                "N", "O", "P", "Q", "R", "S", "T", "U", "V", "W", "X", "Y", "Z">>
LowerAlpha == <<"a", "b", "c", "d", "e", "f", "g", "h", "i", "j", "k", "l", "m",
                "n", "o", "p", "q", "r", "s", "t", "u", "v", "w", "x", "y", "z">>
LowerChar(c) ==
  IF \E i \in 1..26 : UpperAlpha[i] = c
  THEN LowerAlpha[CHOOSE i \in 1..26 : UpperAlpha[i] = c] ELSE c
UpperChar(c) ==
  IF \E i \in 1..26 : LowerAlpha[i] = c
  THEN UpperAlpha[CHOOSE i \in 1..26 : LowerAlpha[i] = c] ELSE c
\* s.lower(), s.upper()
Lower(s) == [i \in 1..Len(s) |-> LowerChar(s[i])]
Upper(s) == [i \in 1..Len(s) |-> UpperChar(s[i])]
\* s[i:i+len(sub)] == sub, i counted from 1
StartsAt(s, i, sub) == i + Len(sub) - 1 <= Len(s) /\ SubSeq(s, i, i + Len(sub) - 1) = sub
\* sub in s
Contains(s, sub) == \E i \in 1..(Len(s) + 1) : StartsAt(s, i, sub)
\* s.startswith(sub)
StartsWith(s, sub) == StartsAt(s, 1, sub)
\* c * n
RECURSIVE Repeat(_, _)
Repeat(c, n) ==
  IF n <= 0 THEN <<>>
  ELSE IF n % 2 = 0 THEN LET h == Repeat(c, n \div 2) IN h \o h
  ELSE <<c>> \o Repeat(c, n - 1)
Digit == <<"0", "1", "2", "3", "4", "5", "6", "7", "8", "9">>
\* str(n) of a non-negative int
RECURSIVE StrOfNat(_)
StrOfNat(n) == IF n < 10 THEN <<Digit[n + 1]>> ELSE StrOfNat(n \div 10) \o <<Digit[(n % 10) + 1]>>
StrOfInt(n) == IF n < 0 THEN <<"-">> \o StrOfNat(-n) ELSE StrOfNat(n)

(***************************************************************************)
(* json.loads(text) succeeds: a recogniser of JSON text.  Each Scan takes  *)
(* the index to read at and gives the index after what it read, 0 when the *)
(* text is not JSON there.                                                 *)
(***************************************************************************)
IsDigit(c) == \E i \in 1..10 : Digit[i] = c
RECURSIVE SkipWs(_, _)
SkipWs(s, i) ==
  IF i <= Len(s) /\ s[i] \in {" ", "\n", "\t", "\r"} THEN SkipWs(s, i + 1) ELSE i
RECURSIVE ScanString(_, _)
ScanString(s, i) ==
  IF i > Len(s) THEN 0
  ELSE IF s[i] = "\"" THEN i + 1
  ELSE IF s[i] = "\\" THEN (IF i + 1 > Len(s) THEN 0 ELSE ScanString(s, i + 2))
  ELSE ScanString(s, i + 1)
RECURSIVE ScanDigits(_, _)
ScanDigits(s, i) == IF i <= Len(s) /\ IsDigit(s[i]) THEN ScanDigits(s, i + 1) ELSE i
ScanNumber(s, i) ==
  LET j == IF i <= Len(s) /\ s[i] = "-" THEN i + 1 ELSE i
      k == IF j <= Len(s) /\ s[j] = "0" THEN j + 1 ELSE ScanDigits(s, j)
      f == IF k <= Len(s) /\ s[k] = "." THEN ScanDigits(s, k + 1) ELSE k
  IN  IF k = j \/ (f # k /\ f = k + 1) THEN 0 ELSE f
RECURSIVE ScanValue(_, _), ScanElements(_, _), ScanMembers(_, _)
ScanValue(s, i) ==
  LET j == SkipWs(s, i) IN
  IF j > Len(s) THEN 0
  ELSE IF s[j] = "{" THEN
    LET k == SkipWs(s, j + 1) IN
    IF k <= Len(s) /\ s[k] = "}" THEN k + 1 ELSE ScanMembers(s, k)
  ELSE IF s[j] = "[" THEN
    LET k == SkipWs(s, j + 1) IN
    IF k <= Len(s) /\ s[k] = "]" THEN k + 1 ELSE ScanElements(s, k)
  ELSE IF s[j] = "\"" THEN ScanString(s, j + 1)
  ELSE IF StartsAt(s, j, <<"t", "r", "u", "e">>) THEN j + 4
  ELSE IF StartsAt(s, j, <<"f", "a", "l", "s", "e">>) THEN j + 5
  ELSE IF StartsAt(s, j, <<"n", "u", "l", "l">>) THEN j + 4
  ELSE ScanNumber(s, j)
\* value (, value)* ]
ScanElements(s, i) ==
  LET e == ScanValue(s, i)
      j == SkipWs(s, e)
  IN  IF e = 0 \/ j > Len(s) THEN 0
      ELSE IF s[j] = "]" THEN j + 1
      ELSE IF s[j] = "," THEN ScanElements(s, j + 1)
      ELSE 0
\* "key" : value (, "key" : value)* }
ScanMembers(s, i) ==
  LET q == SkipWs(s, i)
      k == IF q <= Len(s) /\ s[q] = "\"" THEN ScanString(s, q + 1) ELSE 0
      c == SkipWs(s, k)
      e == IF k # 0 /\ c <= Len(s) /\ s[c] = ":" THEN ScanValue(s, c + 1) ELSE 0
      j == SkipWs(s, e)
  IN  IF e = 0 \/ j > Len(s) THEN 0
      ELSE IF s[j] = "}" THEN j + 1
      ELSE IF s[j] = "," THEN ScanMembers(s, j + 1)
      ELSE 0
json_loads_ok(s) == LET e == ScanValue(s, 1) IN e # 0 /\ SkipWs(s, e) = Len(s) + 1

(***************************************************************************)
(* failure_detection/rules.py                                              *)
(***************************************************************************)
\* a Python object held where None may be held too
Obj(r) == [t |-> "object", v |-> r]

NONE == <<"n", "o", "n", "e">>
CRASH == <<"c", "r", "a", "s", "h">>
SERVER_ERROR == <<"s", "e", "r", "v", "e", "r", "_", "e", "r", "r", "o", "r">>
TIMEOUT == <<"t", "i", "m", "e", "o", "u", "t">>
INVALID_JSON == <<"i", "n", "v", "a", "l", "i", "d", "_", "j", "s", "o", "n">>
CLIENT_ERROR == <<"c", "l", "i", "e", "n", "t", "_", "e", "r", "r", "o", "r">>
FailureType == {NONE, CRASH, SERVER_ERROR, TIMEOUT, INVALID_JSON, CLIENT_ERROR}

HttpExecutionResult(status_code, response_body, exception, headers, success) ==
  [status_code |-> status_code, response_body |-> response_body,
   exception |-> exception, headers |-> headers, success |-> success]
DefaultResult == HttpExecutionResult(None, None, None, <<>>, FALSE)
\* no request was sent
NoReply == [kind |-> "none"]

FailureClassification(failure_type, message, flags) ==
  [failure_type |-> failure_type, message |-> message, flags |-> flags]
is_failure(c) == c.failure_type # NONE

_is_timeout_exception(exception) ==
  LET lower == Lower(exception)
  IN  Contains(lower, <<"t", "i", "m", "e", "o", "u", "t">>) \/ Contains(lower, <<"t", "i", "m", "e", "d", " ", "o", "u", "t">>)

_expects_json(r) ==
  LET ct == Get(r.headers, <<"C", "o", "n", "t", "e", "n", "t", "-", "T", "y", "p", "e">>, Str(<<>>))
  IN  Contains(ct.v, <<"a", "p", "p", "l", "i", "c", "a", "t", "i", "o", "n", "/", "j", "s", "o", "n">>)

_is_valid_json_response(r) ==
  LET body == r.response_body IN
  IF body.t = "none" THEN FALSE
  ELSE IF body.t \in {"dict", "list"} THEN TRUE
  ELSE IF body.t \in {"bytes", "str"} THEN json_loads_ok(body.v)
  ELSE FALSE

\* the mutant of the flag map that starts with the timeout flag set
Flags_timeout_set ==
  [crash |-> FALSE, server_error |-> FALSE, client_error |-> FALSE,
   timeout |-> TRUE, invalid_json |-> FALSE]

Flags == [crash |-> FALSE, server_error |-> FALSE, client_error |-> FALSE,
          timeout |-> FALSE, invalid_json |-> FALSE]

classify_status_first(r) ==
  IF r.status_code.t # "none" /\ NumLE(IntV(500), r.status_code)
     /\ NumLT(r.status_code, IntV(600)) THEN
    FailureClassification(SERVER_ERROR, <<"H", "T", "T", "P", " ">> \o StrOfInt(IntOf(r.status_code)),
                          [Flags EXCEPT !.server_error = TRUE])
  ELSE IF Truthy(r.exception) /\ _is_timeout_exception(r.exception.v) THEN
    FailureClassification(TIMEOUT, r.exception.v, [Flags EXCEPT !.timeout = TRUE])
  ELSE IF Truthy(r.exception) THEN
    FailureClassification(CRASH, r.exception.v, [Flags EXCEPT !.crash = TRUE])
  ELSE IF r.status_code.t # "none" /\ NumLE(IntV(400), r.status_code)
          /\ NumLT(r.status_code, IntV(500)) THEN
    FailureClassification(CLIENT_ERROR, <<"H", "T", "T", "P", " ">> \o StrOfInt(IntOf(r.status_code)),
                          [Flags EXCEPT !.client_error = TRUE])
  ELSE IF _expects_json(r) /\ ~_is_valid_json_response(r) THEN
    FailureClassification(INVALID_JSON,
                          <<"R", "e", "s", "p", "o", "n", "s", "e", " ", "c", "l", "a", "i", "m", "e", "d", " ", "J", "S", "O", "N", " ", "b", "u", "t", " ", "b", "o", "d", "y", " ", "i", "s", " ", "n", "o", "t", " ", "v", "a", "l", "i", "d", " ", "J", "S", "O", "N">>,
                          [Flags EXCEPT !.invalid_json = TRUE])
  ELSE FailureClassification(NONE, <<>>, Flags)

classify(r) ==
  IF Truthy(r.exception) /\ _is_timeout_exception(r.exception.v) THEN
    FailureClassification(TIMEOUT, r.exception.v, [Flags EXCEPT !.timeout = TRUE])
  ELSE IF Truthy(r.exception) THEN
    FailureClassification(CRASH, r.exception.v, [Flags EXCEPT !.crash = TRUE])
  ELSE IF r.status_code.t # "none" /\ NumLE(IntV(500), r.status_code)
          /\ NumLT(r.status_code, IntV(600)) THEN
    FailureClassification(SERVER_ERROR, <<"H", "T", "T", "P", " ">> \o StrOfInt(IntOf(r.status_code)),
                          [Flags EXCEPT !.server_error = TRUE])
  ELSE IF r.status_code.t # "none" /\ NumLE(IntV(400), r.status_code)
          /\ NumLT(r.status_code, IntV(500)) THEN
    FailureClassification(CLIENT_ERROR, <<"H", "T", "T", "P", " ">> \o StrOfInt(IntOf(r.status_code)),
                          [Flags EXCEPT !.client_error = TRUE])
  ELSE IF _expects_json(r) /\ ~_is_valid_json_response(r) THEN
    FailureClassification(INVALID_JSON,
                          <<"R", "e", "s", "p", "o", "n", "s", "e", " ", "c", "l", "a", "i", "m", "e", "d", " ", "J", "S", "O", "N", " ", "b", "u", "t", " ", "b", "o", "d", "y", " ", "i", "s", " ", "n", "o", "t", " ", "v", "a", "l", "i", "d", " ", "J", "S", "O", "N">>,
                          [Flags EXCEPT !.invalid_json = TRUE])
  ELSE FailureClassification(NONE, <<>>, Flags)

(***************************************************************************)
(* The outcomes classify is applied to: every combination of an error      *)
(* text, a status code, response headers and a response body.              *)
(***************************************************************************)
ErrorTexts ==
  {None, Str(<<>>), Str(<<"T", "i", "m", "e", "o", "u", "t", " ", "(", "1", "0", ".", "0", "s", ")", ":", " ", "r", "e", "a", "d">>), Str(<<"R", "e", "q", "u", "e", "s", "t", " ", "T", "I", "M", "E", "D", " ", "O", "U", "T">>),
   Str(<<"R", "e", "a", "d", "T", "i", "m", "e", "o", "u", "t", ":", " ", "s", "l", "o", "w">>), Str(<<"C", "o", "n", "n", "e", "c", "t", "i", "o", "n", "E", "r", "r", "o", "r", ":", " ", "r", "e", "f", "u", "s", "e", "d">>), Str(<<"t", "i", "m", "e", " ", "o", "u", "t">>)}
StatusCodes ==
  {None, IntV(200), IntV(201), IntV(399), IntV(400), IntV(404), IntV(499),
   IntV(500), IntV(503), IntV(599), IntV(600)}
ResponseHeaders ==
  {<<>>,
   <<KV(<<"C", "o", "n", "t", "e", "n", "t", "-", "T", "y", "p", "e">>, Str(<<"a", "p", "p", "l", "i", "c", "a", "t", "i", "o", "n", "/", "j", "s", "o", "n">>))>>,
   <<KV(<<"C", "o", "n", "t", "e", "n", "t", "-", "T", "y", "p", "e">>, Str(<<"a", "p", "p", "l", "i", "c", "a", "t", "i", "o", "n", "/", "j", "s", "o", "n", ";", " ", "c", "h", "a", "r", "s", "e", "t", "=", "u", "t", "f", "-", "8">>))>>,
   <<KV(<<"C", "o", "n", "t", "e", "n", "t", "-", "T", "y", "p", "e">>, Str(<<"t", "e", "x", "t", "/", "h", "t", "m", "l">>))>>,
   <<KV(<<"c", "o", "n", "t", "e", "n", "t", "-", "t", "y", "p", "e">>, Str(<<"a", "p", "p", "l", "i", "c", "a", "t", "i", "o", "n", "/", "j", "s", "o", "n">>))>>}
ResponseBodies ==
  {None, Dict(<<KV(<<"a">>, IntV(1))>>), List(<<>>), Str(<<"{", "\"", "a", "\"", ":", " ", "[", "1", ",", " ", "\"", "x", "\"", "]", "}">>),
   Str(<<"<", "h", "t", "m", "l", ">">>), Str(<<>>), Bytes(<<"[", "1", ".", "5", ",", " ", "t", "r", "u", "e", "]">>), Bytes(<<"{", "\"", "a", "\"", ":">>)}

ClassifyResult ==
  /\ classification = None
  /\ classification' = Obj(classify(result))
  /\ UNCHANGED <<svcVars, requests, reply, result, genVars, repVars>>

(***************************************************************************)
(* reporting/report.py                                                     *)
(***************************************************************************)
ExecutionLogEntry(method, url, headers, params, json_body, data, res) ==
  [method |-> method, url |-> url, headers |-> headers, params |-> params,
   json_body |-> json_body, data |-> data, result |-> res]

\* ExecutionLogEntry._get_result; a dict result is one read from a JSON log
_get_result(entry) ==
  IF entry.result.t = "none" THEN None
  ELSE IF entry.result.t = "object" THEN entry.result
  ELSE LET d == entry.result.v
           h == Get(d, <<"h", "e", "a", "d", "e", "r", "s">>, None)
           s == Get(d, <<"s", "u", "c", "c", "e", "s", "s">>, Bool(FALSE))
       IN  Obj(HttpExecutionResult(Get(d, <<"s", "t", "a", "t", "u", "s", "_", "c", "o", "d", "e">>, None),
                                   Get(d, <<"r", "e", "s", "p", "o", "n", "s", "e", "_", "b", "o", "d", "y">>, None),
                                   Get(d, <<"e", "x", "c", "e", "p", "t", "i", "o", "n">>, None),
                                   IF Truthy(h) THEN h.v ELSE <<>>,
                                   Truthy(s)))

\* the mutant of grouped[kind].append(entry) that puts the entry first
GroupAppend_front(grouped, kind, entry) ==
  Put(grouped, kind, <<entry>> \o Get(grouped, kind, <<>>))

\* grouped[kind].append(entry) on a defaultdict(list)
GroupAppend(grouped, kind, entry) ==
  Put(grouped, kind, Append(Get(grouped, kind, <<>>), entry))

RECURSIVE GroupFrom(_, _, _)
GroupFrom(es, i, grouped) ==
  IF i > Len(es) THEN grouped
  ELSE LET r == _get_result(es[i]) IN
       IF r.t = "none" THEN GroupFrom(es, i + 1, grouped)
       ELSE LET c == classify(r.v) IN
            IF is_failure(c)
            THEN GroupFrom(es, i + 1, GroupAppend(grouped, c.failure_type, es[i]))
            ELSE GroupFrom(es, i + 1, grouped)

group_failures_by_type(es) == GroupFrom(es, 1, <<>>)

\* sep.join(parts)
RECURSIVE Join(_, _)
Join(sep, parts) ==
  IF Len(parts) = 0 THEN <<>>
  ELSE IF Len(parts) = 1 THEN parts[1]
  ELSE parts[1] \o sep \o Join(sep, Tail(parts))

\* s.replace(old, new) for a one-character old
RECURSIVE ReplaceChar(_, _, _)
ReplaceChar(s, old, new) ==
  IF Len(s) = 0 THEN <<>>
  ELSE (IF s[1] = old THEN new ELSE <<s[1]>>) \o ReplaceChar(Tail(s), old, new)

\* the decimal digits of the integer limbs of a magnitude
Pad5(n) == LET d == StrOfNat(n) IN Repeat(<<"0">>, 5 - Len(d)) \o d
RECURSIVE StripZeros(_)
StripZeros(d) == IF Len(d) > 1 /\ d[1] = "0" THEN StripZeros(Tail(d)) ELSE d
StrOfMag(m) == StripZeros(Pad5(m[1]) \o Pad5(m[2]) \o Pad5(m[3]) \o Pad5(m[4]))

\* the JSON text of a str: json.dumps(s, ensure_ascii=False)
RECURSIVE JsonEscape(_)
JsonEscape(s) ==
  IF Len(s) = 0 THEN <<>>
  ELSE (CASE s[1] = "\"" -> <<"\\", "\"">>
          [] s[1] = "\\" -> <<"\\", "\\">>
          [] s[1] = "\n" -> <<"\\", "n">>
          [] s[1] = "\t" -> <<"\\", "t">>
          [] s[1] = "\r" -> <<"\\", "r">>
          [] OTHER -> <<s[1]>>) \o JsonEscape(Tail(s))

\* json.dumps(x, ensure_ascii=False): the default separators ", " and ": "
RECURSIVE json_dumps(_)
json_dumps(x) ==
  CASE x.t = "none" -> <<"n", "u", "l", "l">>
    [] x.t = "bool" -> IF x.v THEN <<"t", "r", "u", "e">> ELSE <<"f", "a", "l", "s", "e">>
    [] x.t = "int" -> (IF x.v.neg THEN <<"-">> ELSE <<>>) \o StrOfMag(x.v.mag)
    [] x.t = "str" -> <<"\"">> \o JsonEscape(x.v) \o <<"\"">>
    [] x.t = "list" ->
         <<"[">> \o Join(<<",", " ">>, [i \in 1..Len(x.v) |-> json_dumps(x.v[i])]) \o <<"]">>
    [] x.t = "dict" ->
         <<"{">> \o Join(<<",", " ">>, [i \in 1..Len(x.v) |->
                    <<"\"">> \o JsonEscape(x.v[i].k) \o <<"\"", ":", " ">> \o json_dumps(x.v[i].v)])
         \o <<"}">>

\* urllib.parse.quote_plus of the characters a query holds here
QuotePlusChar(c) ==
  CASE c = " " -> <<"+">>
    [] c = "/" -> <<"%", "2", "F">>
    [] c = "&" -> <<"%", "2", "6">>
    [] c = "=" -> <<"%", "3", "D">>
    [] c = "?" -> <<"%", "3", "F">>
    [] OTHER -> <<c>>
RECURSIVE QuotePlus(_)
QuotePlus(s) == IF Len(s) = 0 THEN <<>> ELSE QuotePlusChar(s[1]) \o QuotePlus(Tail(s))
\* urlencode(params, doseq=True) of a dict of str values
urlencode(params) ==
  Join(<<"&">>, [i \in 1..Len(params) |->
                   QuotePlus(params[i].k) \o <<"=">> \o QuotePlus(params[i].v.v)])

HeaderPart(h) ==
  <<"-", "H", " ", "\"">> \o h.k \o <<":", " ">>
  \o ReplaceChar(ReplaceChar(h.v.v, "\\", <<"\\", "\\">>), "\"", <<"\\", "\"">>) \o <<"\"">>

\* the mutant of to_curl that looks for the key content-type as the caller wrote it
to_curl_exact_case(entry) ==
  LET headers == IF Truthy(entry.headers) THEN entry.headers.v ELSE <<>>
      params == IF Truthy(entry.params) THEN entry.params.v ELSE <<>>
      url == IF Len(params) > 0
             THEN entry.url
                  \o (IF Contains(entry.url, <<"?">>) THEN <<"&">> ELSE <<"?">>)
                  \o urlencode(params)
             ELSE entry.url
      hasCT == \E i \in 1..Len(headers) : headers[i].k = <<"c", "o", "n", "t", "e", "n", "t", "-", "t", "y", "p", "e">>
      body ==
        IF entry.json_body.t # "none" THEN
          <<<<"-", "d", " ", "'">> \o ReplaceChar(json_dumps(entry.json_body), "'", <<"'", "\\", "'", "'">>) \o <<"'">>>>
          \o (IF ~hasCT THEN <<<<"-", "H", " ", "\"", "C", "o", "n", "t", "e", "n", "t", "-", "T", "y", "p", "e", ":", " ", "a", "p", "p", "l", "i", "c", "a", "t", "i", "o", "n", "/", "j", "s", "o", "n", "\"">>>> ELSE <<>>)
        ELSE IF entry.data.t # "none" THEN
          <<<<"-", "d", " ", "'">>
            \o ReplaceChar(IF entry.data.t \in {"dict", "list"}
                           THEN json_dumps(entry.data) ELSE entry.data.v,
                           "'", <<"'", "\\", "'", "'">>)
            \o <<"'">>>>
        ELSE <<>>
  IN  Join(<<" ">>,
           <<<<"c", "u", "r", "l">>, <<"-", "X">>, Upper(entry.method)>>
           \o [i \in 1..Len(headers) |-> HeaderPart(headers[i])]
           \o <<<<"\"">> \o url \o <<"\"">>>>
           \o body)

to_curl(entry) ==
  LET headers == IF Truthy(entry.headers) THEN entry.headers.v ELSE <<>>
      params == IF Truthy(entry.params) THEN entry.params.v ELSE <<>>
      url == IF Len(params) > 0
             THEN entry.url
                  \o (IF Contains(entry.url, <<"?">>) THEN <<"&">> ELSE <<"?">>)
                  \o urlencode(params)
             ELSE entry.url
      hasCT == \E i \in 1..Len(headers) : Lower(headers[i].k) = <<"c", "o", "n", "t", "e", "n", "t", "-", "t", "y", "p", "e">>
      body ==
        IF entry.json_body.t # "none" THEN
          <<<<"-", "d", " ", "'">> \o ReplaceChar(json_dumps(entry.json_body), "'", <<"'", "\\", "'", "'">>) \o <<"'">>>>
          \o (IF ~hasCT THEN <<<<"-", "H", " ", "\"", "C", "o", "n", "t", "e", "n", "t", "-", "T", "y", "p", "e", ":", " ", "a", "p", "p", "l", "i", "c", "a", "t", "i", "o", "n", "/", "j", "s", "o", "n", "\"">>>> ELSE <<>>)
        ELSE IF entry.data.t # "none" THEN
          <<<<"-", "d", " ", "'">>
            \o ReplaceChar(IF entry.data.t \in {"dict", "list"}
                           THEN json_dumps(entry.data) ELSE entry.data.v,
                           "'", <<"'", "\\", "'", "'">>)
            \o <<"'">>>>
        ELSE <<>>
  IN  Join(<<" ">>,
           <<<<"c", "u", "r", "l">>, <<"-", "X">>, Upper(entry.method)>>
           \o [i \in 1..Len(headers) |-> HeaderPart(headers[i])]
           \o <<<<"\"">> \o url \o <<"\"">>>>
           \o body)

\* the mutant of generate_report that keeps one copy of each command
RECURSIVE Dedup(_)
Dedup(s) ==
  IF Len(s) = 0 THEN <<>>
  ELSE LET r == Dedup(SubSeq(s, 1, Len(s) - 1)) IN
       IF \E i \in 1..Len(r) : r[i] = s[Len(s)] THEN r ELSE Append(r, s[Len(s)])
generate_report_dedup(es) ==
  LET grouped == group_failures_by_type(es)
  IN  [i \in 1..Len(grouped) |->
         KV(grouped[i].k, Dedup([j \in 1..Len(grouped[i].v) |-> to_curl(grouped[i].v[j])]))]

generate_report(es) ==
  LET grouped == group_failures_by_type(es)
  IN  [i \in 1..Len(grouped) |->
         KV(grouped[i].k, [j \in 1..Len(grouped[i].v) |-> to_curl(grouped[i].v[j])])]

(***************************************************************************)
(* A scan appends one ExecutionLogEntry per request it sent                *)
(* (core/runner.py); the report is generated from the collected list.      *)
(***************************************************************************)
MaxEntries == 3

ScanBody == Dict(<<KV(<<"a">>, IntV(1)), KV(<<"b">>, IntV(0))>>)
JsonHeaders == <<KV(<<"C", "o", "n", "t", "e", "n", "t", "-", "T", "y", "p", "e">>, Str(<<"a", "p", "p", "l", "i", "c", "a", "t", "i", "o", "n", "/", "j", "s", "o", "n">>))>>
ScanResults ==
  {None,
   Obj(HttpExecutionResult(IntV(200), Dict(<<>>), None, JsonHeaders, TRUE)),
   Obj(HttpExecutionResult(IntV(200), Str(<<"o", "o", "p", "s">>), None, JsonHeaders, TRUE)),
   Obj(HttpExecutionResult(IntV(500), Str(<<"b", "o", "o", "m">>), None, <<>>, TRUE)),
   Obj(HttpExecutionResult(IntV(422), Dict(<<>>), None, JsonHeaders, TRUE)),
   Obj(HttpExecutionResult(None, None, Str(<<"T", "i", "m", "e", "o", "u", "t", " ", "(", "1", "0", ".", "0", "s", ")", ":", " ", "r", "e", "a", "d">>), <<>>, FALSE)),
   Obj(HttpExecutionResult(None, None, Str(<<"C", "o", "n", "n", "e", "c", "t", "i", "o", "n", "E", "r", "r", "o", "r", ":", " ", "r", "e", "f", "u", "s", "e", "d">>), <<>>, FALSE)),
   Dict(<<KV(<<"s", "t", "a", "t", "u", "s", "_", "c", "o", "d", "e">>, IntV(503))>>)}
ScanEntries ==
  {ExecutionLogEntry(<<"p", "o", "s", "t">>, <<"h", "t", "t", "p", ":", "/", "/", "h", "/", "d">>, Dict(<<>>), None, ScanBody, None, r) :
     r \in ScanResults}
  \cup {ExecutionLogEntry(<<"G", "E", "T">>, <<"h", "t", "t", "p", ":", "/", "/", "h", "/", "q">>, Dict(<<>>),
                          Dict(<<KV(<<"q">>, Str(<<"a", " ", "b">>))>>), None, None, r) :
          r \in {Obj(HttpExecutionResult(IntV(500), Str(<<"b", "o", "o", "m">>), None, <<>>, TRUE)),
                 Obj(HttpExecutionResult(IntV(200), Str(<<"o", "k">>), None, <<>>, TRUE))}}

\* the executions of a scan that are fed to the grouping in every order
FedEntries ==
  {ExecutionLogEntry(<<"p", "o", "s", "t">>, <<"h", "t", "t", "p", ":", "/", "/", "h", "/", "d">>, Dict(<<>>), None, ScanBody, None, r) :
     r \in {None,
            Obj(HttpExecutionResult(IntV(200), Dict(<<>>), None, JsonHeaders, TRUE)),
            Obj(HttpExecutionResult(IntV(500), Str(<<"b", "o", "o", "m">>), None, <<>>, TRUE)),
            Obj(HttpExecutionResult(None, None, Str(<<"T", "i", "m", "e", "o", "u", "t", " ", "(", "1", "0", ".", "0", "s", ")", ":", " ", "r", "e", "a", "d">>), <<>>, FALSE)),
            Dict(<<KV(<<"s", "t", "a", "t", "u", "s", "_", "c", "o", "d", "e">>, IntV(503))>>)}}
  \cup {ExecutionLogEntry(<<"G", "E", "T">>, <<"h", "t", "t", "p", ":", "/", "/", "h", "/", "q">>, Dict(<<>>),
                          Dict(<<KV(<<"q">>, Str(<<"a", " ", "b">>))>>), None, None, r) :
          r \in {Obj(HttpExecutionResult(IntV(500), Str(<<"b", "o", "o", "m">>), None, <<>>, TRUE)),
                 Obj(HttpExecutionResult(IntV(200), Str(<<"o", "k">>), None, <<>>, TRUE))}}

\* the requests to_curl renders: caller headers with and without a content-type
\* key in several letter cases, a JSON body, a raw body or none
CallerHeaders ==
  {None,
   Dict(<<>>),
   Dict(<<KV(<<"A", "c", "c", "e", "p", "t">>, Str(<<"*", "/", "*">>))>>),
   Dict(<<KV(<<"C", "o", "n", "t", "e", "n", "t", "-", "T", "y", "p", "e">>, Str(<<"t", "e", "x", "t", "/", "p", "l", "a", "i", "n">>))>>),
   Dict(<<KV(<<"C", "O", "N", "T", "E", "N", "T", "-", "T", "Y", "P", "E">>, Str(<<"a", "p", "p", "l", "i", "c", "a", "t", "i", "o", "n", "/", "j", "s", "o", "n">>))>>),
   Dict(<<KV(<<"A", "c", "c", "e", "p", "t">>, Str(<<"*", "/", "*">>)), KV(<<"c", "o", "n", "t", "e", "n", "t", "-", "t", "y", "p", "e">>, Str(<<"a", "/", "b">>))>>),
   Dict(<<KV(<<"X", "-", "C", "o", "n", "t", "e", "n", "t", "-", "T", "y", "p", "e">>, Str(<<"x">>))>>)}
CurlBodies ==
  {<<ScanBody, None>>, <<Dict(<<>>), None>>, <<None, Str(<<"x">>)>>, <<None, None>>,
   <<IntV(0), Dict(<<KV(<<"a">>, IntV(1))>>)>>}
CurlEntries ==
  {ExecutionLogEntry(<<"p", "o", "s", "t">>, <<"h", "t", "t", "p", ":", "/", "/", "h", "/", "d">>, h, None, b[1], b[2], r) :
     h \in CallerHeaders, b \in CurlBodies,
     r \in {Obj(HttpExecutionResult(IntV(500), Str(<<"b", "o", "o", "m">>), None, <<>>, TRUE)),
            Obj(HttpExecutionResult(None, None, Str(<<"T", "i", "m", "e", "o", "u", "t", " ", "(", "1", "0", ".", "0", "s", ")", ":", " ", "r", "e", "a", "d">>), <<>>, FALSE))}}

AppendEntry(e) ==
  /\ report = None
  /\ Len(entries) < MaxEntries
  /\ entries' = Append(entries, e)
  /\ UNCHANGED <<svcVars, report, console, genVars, clsVars>>

GenerateReport ==
  /\ report' = Obj(generate_report(entries))
  /\ UNCHANGED <<svcVars, entries, console, genVars, clsVars>>

(***************************************************************************)
(* input_generation/edge_cases.py: the catalogs                            *)
(***************************************************************************)
\* what a call gives: the value it returns, or the exception it raises
Ok(x) == [exc |-> "", v |-> x]
Raise(e) == [exc |-> e, v |-> <<>>]

NUMBER_EDGE_CASES ==
  <<IntV(0),
    FloatV(TRUE, <<0, 0, 0, 0>>, <<0, 0>>),
    IntV(1),
    IntV(-1),
    FloatV(FALSE, <<0, 0, 0, 0>>, <<50000, 0>>),
    FloatV(TRUE, <<0, 0, 0, 0>>, <<50000, 0>>),
    Inf(FALSE),
    Inf(TRUE),
    NaN,
    FloatV(FALSE, <<0, 1, 0, 0>>, <<0, 0>>),
    FloatV(TRUE, <<0, 1, 0, 0>>, <<0, 0>>),
    FloatV(FALSE, <<0, 0, 0, 0>>, <<0, 1>>),
    FloatV(TRUE, <<0, 0, 0, 0>>, <<0, 1>>)>>

INTEGER_EDGE_CASES ==
  <<IntV(0),
    IntV(1),
    IntV(-1),
    BigInt(FALSE, <<0, 0, 21474, 83647>>),
    BigInt(TRUE, <<0, 0, 21474, 83648>>),
    BigInt(FALSE, <<9223, 37203, 68547, 75807>>),
    BigInt(TRUE, <<9223, 37203, 68547, 75808>>)>>

\* a character outside printable ASCII is one element named by its code point
STRING_EDGE_CASES ==
  <<Str(<<>>),
    Str(<<" ">>),
    Str(<<"a">>),
    Str(<<"A">>),
    Str(<<"0">>),
    Str(<<"h", "e", "l", "l", "o">>),
    Str(<<"H", "e", "l", "l", "o", ",", " ", "W", "o", "r", "l", "d", "!">>),
    Str(Repeat("A", 1000)),
    Str(<<"U+0000">>),
    Str(<<"\n">>),
    Str(<<"\t">>),
    Str(<<"\\">>),
    Str(<<"\"">>),
    Str(<<"U+65E5", "U+672C", "U+8A9E">>),
    Str(<<"e", "m", "o", "j", "i", ":", " ">> \o <<"U+1F600">>),
    Str(<<"s", "q", "l", "'", " ", "O", "R", " ", "'", "1", "'", "=", "'", "1">>),
    Str(<<"<", "s", "c", "r", "i", "p", "t", ">", "a", "l", "e", "r", "t", "(", "1", ")", "<", "/", "s", "c", "r", "i", "p", "t", ">">>),
    Str(<<"n", "u", "l", "l">>),
    Str(<<"t", "r", "u", "e">>),
    Str(<<"f", "a", "l", "s", "e">>)>>

BOOLEAN_EDGE_CASES == <<Bool(TRUE), Bool(FALSE)>>

ARRAY_EDGE_CASES ==
  <<List(<<>>), List(<<None>>), List(<<IntV(0)>>), List(<<Str(<<>>)>>), List(<<Bool(TRUE)>>)>>

\* the four dict literals of OBJECT_EDGE_CASES are shared objects: every
\* list(OBJECT_EDGE_CASES) holds the same four dicts
OBJECT_EDGE_CASES ==
  <<Ref(<<"OBJECT_EDGE_CASES", 0>>), Ref(<<"OBJECT_EDGE_CASES", 1>>),
    Ref(<<"OBJECT_EDGE_CASES", 2>>), Ref(<<"OBJECT_EDGE_CASES", 3>>)>>

\* the most generator calls made on one schema
MaxCalls == 2

\* the dict the caller of call n passes as an override value, and the dict
\* generate_sample_object builds and returns
OverrideCell(n) == <<"override", n>>
PayloadCell == <<"obj", 0>>
Cells ==
  {OBJECT_EDGE_CASES[i].v : i \in 1..4} \cup {OverrideCell(n) : n \in 1..MaxCalls}
  \cup {PayloadCell}
\* the contents of the shared dicts when the module has been imported
InitHeap ==
  [c \in Cells |->
     CASE c = <<"OBJECT_EDGE_CASES", 1>> -> <<KV(<<"k", "e", "y">>, None)>>
       [] c = <<"OBJECT_EDGE_CASES", 2>> -> <<KV(<<"k", "e", "y">>, Str(<<>>))>>
       [] c = <<"OBJECT_EDGE_CASES", 3>> -> <<KV(<<"k", "e", "y">>, IntV(0))>>
       [] OTHER -> <<>>]

(***************************************************************************)
(* _get_candidates_for_type                                                *)
(***************************************************************************)
k_type == <<"t", "y", "p", "e">>
k_nullable == <<"n", "u", "l", "l", "a", "b", "l", "e">>
k_enum == <<"e", "n", "u", "m">>
k_minimum == <<"m", "i", "n", "i", "m", "u", "m">>
k_maximum == <<"m", "a", "x", "i", "m", "u", "m">>
k_format == <<"f", "o", "r", "m", "a", "t">>
k_minLength == <<"m", "i", "n", "L", "e", "n", "g", "t", "h">>
k_maxLength == <<"m", "a", "x", "L", "e", "n", "g", "t", "h">>
k_items == <<"i", "t", "e", "m", "s">>
k_minItems == <<"m", "i", "n", "I", "t", "e", "m", "s">>
k_properties == <<"p", "r", "o", "p", "e", "r", "t", "i", "e", "s">>
k_ref == <<"$", "r", "e", "f">>

\* s[:n]
Take(s, n) == SubSeq(s, 1, IF Len(s) < n THEN Len(s) ELSE n)

\* lines 96-106: the effective type and nullability of a schema dict
ResolveType(s, fallback_type) ==
  LET raw_type == Get(s, k_type, fallback_type) IN
  IF raw_type.t = "list" THEN
    IF \E i \in 1..Len(raw_type.v) : raw_type.v[i] = Str(<<"n", "u", "l", "l">>) THEN
      LET rest == SelectSeq(raw_type.v, LAMBDA x : x # Str(<<"n", "u", "l", "l">>))
      IN  [schema_type |-> IF Len(rest) > 0 THEN rest[1] ELSE fallback_type,
           nullable |-> TRUE]
    ELSE [schema_type |-> IF Len(raw_type.v) > 0 THEN raw_type.v[1] ELSE fallback_type,
          nullable |-> FALSE]
  ELSE [schema_type |-> raw_type, nullable |-> Truthy(Get(s, k_nullable, Bool(FALSE)))]

\* lines 109-110: list(schema["enum"])
EnumCandidates_null(s, nullable) ==
  LET e == Get(s, k_enum, None) IN
  IF nullable /\ ~\E i \in 1..Len(e.v) : e.v[i] = None
  THEN Ok(<<None>> \o e.v) ELSE Ok(e.v)
EnumCandidates(s, nullable) ==
  LET e == Get(s, k_enum, None) IN
  IF e.t = "list" THEN Ok(e.v)
  ELSE IF e.t = "str" THEN Ok([i \in 1..Len(e.v) |-> Str(<<e.v[i]>>)])
  ELSE IF e.t = "dict" THEN Ok([i \in 1..Len(e.v) |-> Str(e.v[i].k)])
  ELSE Raise("TypeError")

\* lines 112-115
_add_null_last(nullable, candidates) ==
  IF nullable /\ ~\E i \in 1..Len(candidates) : candidates[i] = None
  THEN candidates \o <<None>> ELSE candidates
_add_null(nullable, candidates) ==
  IF nullable /\ ~\E i \in 1..Len(candidates) : candidates[i] = None
  THEN <<None>> \o candidates ELSE candidates

\* math.isnan(v)
isnan(x) == x.t = "float" /\ x.v.k = "nan"

\* [v for v in candidates if not math.isnan(v) and mn <= v <= mx]; comparing
\* a number with a bound that is not a number raises TypeError
RangeFilter(candidates, mn, mx, dropNan) ==
  IF \E i \in 1..Len(candidates) :
       /\ ~(dropNan /\ isnan(candidates[i]))
       /\ \/ ~IsNumber(mn)
          \/ NumLE(mn, candidates[i]) /\ ~IsNumber(mx)
  THEN Raise("TypeError")
  ELSE Ok(SelectSeq(candidates,
                 LAMBDA x : ~(dropNan /\ isnan(x)) /\ NumLE(mn, x) /\ NumLE(x, mx)))

\* lines 117-123
NumberCandidates_keep_nan(s) ==
  IF HasKey(s, k_minimum) \/ HasKey(s, k_maximum)
  THEN LET r == RangeFilter(SelectSeq(NUMBER_EDGE_CASES, LAMBDA x : ~isnan(x)),
                            Get(s, k_minimum, Inf(TRUE)), Get(s, k_maximum, Inf(FALSE)),
                            TRUE)
       IN  IF r.exc # "" THEN r ELSE Ok(r.v \o <<NaN>>)
  ELSE Ok(NUMBER_EDGE_CASES)
NumberCandidates(s) ==
  IF HasKey(s, k_minimum) \/ HasKey(s, k_maximum)
  THEN RangeFilter(NUMBER_EDGE_CASES,
                   Get(s, k_minimum, Inf(TRUE)), Get(s, k_maximum, Inf(FALSE)), TRUE)
  ELSE Ok(NUMBER_EDGE_CASES)

\* the mutant of lines 128-129 whose absent bounds are those of the 32-bit range
IntegerCandidates_int32(s) ==
  IF HasKey(s, k_minimum) \/ HasKey(s, k_maximum)
  THEN RangeFilter(INTEGER_EDGE_CASES,
                   Get(s, k_minimum, BigInt(TRUE, <<0, 0, 21474, 83648>>)),
                   Get(s, k_maximum, BigInt(FALSE, <<0, 0, 21474, 83647>>)),
                   FALSE)
  ELSE Ok(INTEGER_EDGE_CASES)

\* lines 125-131
IntegerCandidates(s) ==
  IF HasKey(s, k_minimum) \/ HasKey(s, k_maximum)
  THEN RangeFilter(INTEGER_EDGE_CASES,
                   Get(s, k_minimum, BigInt(TRUE, <<9223, 37203, 68547, 75808>>)),
                   Get(s, k_maximum, BigInt(FALSE, <<9223, 37203, 68547, 75807>>)),
                   FALSE)
  ELSE Ok(INTEGER_EDGE_CASES)

\* the cap of line 147
MaxFiller == 1000

\* lines 136-143
FormatProbes(fmt) ==
  IF fmt = Str(<<"e", "m", "a", "i", "l">>)
  THEN <<Str(<<"a", "@", "b", ".", "c", "o", "m">>), Str(<<"i", "n", "v", "a", "l", "i", "d">>), Str(<<"a", "@">>), Str(<<"@", "b", ".", "c", "o", "m">>)>>
  ELSE IF fmt = Str(<<"u", "u", "i", "d">>)
  THEN <<Str(<<"0", "0", "0", "0", "0", "0", "0", "0", "-", "0", "0", "0", "0", "-", "0", "0", "0", "0", "-", "0", "0", "0", "0", "-", "0", "0", "0", "0", "0", "0", "0", "0", "0", "0", "0", "0">>), Str(<<"i", "n", "v", "a", "l", "i", "d">>)>>
  ELSE IF fmt = Str(<<"d", "a", "t", "e", "-", "t", "i", "m", "e">>) THEN <<Str(<<"2", "0", "2", "4", "-", "0", "1", "-", "0", "1", "T", "0", "0", ":", "0", "0", ":", "0", "0", "Z">>), Str(<<"i", "n", "v", "a", "l", "i", "d">>)>>
  ELSE IF fmt = Str(<<"d", "a", "t", "e">>) THEN <<Str(<<"2", "0", "2", "4", "-", "0", "1", "-", "0", "1">>), Str(<<"i", "n", "v", "a", "l", "i", "d">>)>>
  ELSE <<>>

\* "x" * n: TypeError when n is not an int
Filler(n) == Str(Repeat("x", IntOf(n)))
Min(a, b) == IF NumLT(b, a) THEN b ELSE a

\* lines 133-148
StringCandidates_nocap(s) ==
  LET mn == Get(s, k_minLength, None)
      mx == Get(s, k_maxLength, None)
  IN  Ok(STRING_EDGE_CASES \o FormatProbes(Get(s, k_format, Str(<<>>)))
         \o (IF HasKey(s, k_minLength) THEN <<Filler(mn)>> ELSE <<>>)
         \o (IF HasKey(s, k_maxLength) THEN <<Filler(mx)>> ELSE <<>>))
StringCandidates(s) ==
  LET mn == Get(s, k_minLength, None)
      mx == Get(s, k_maxLength, None)
  IN  IF (HasKey(s, k_minLength) /\ mn.t # "int") \/ (HasKey(s, k_maxLength) /\ mx.t # "int")
      THEN Raise("TypeError")
      ELSE Ok(STRING_EDGE_CASES \o FormatProbes(Get(s, k_format, Str(<<>>)))
              \o (IF HasKey(s, k_minLength) THEN <<Filler(mn)>> ELSE <<>>)
              \o (IF HasKey(s, k_maxLength) THEN <<Filler(Min(mx, IntV(MaxFiller)))>> ELSE <<>>))

\* lines 184-186
UnknownCandidates ==
  <<None, IntV(0), IntV(1), Str(<<>>), Str(<<" ">>), Bool(TRUE), Bool(FALSE), List(<<>>),
    Dict(<<>>)>>

\* the number of sampled objects and of sampled properties (lines 171, 173), and of
\* wrapped item candidates (line 158)
SampledObjects == 3
SampledProperties == 5
WrappedItems == 5

RECURSIVE _get_candidates_for_type(_, _), ArrayCandidates(_), SampleProperties(_, _, _)

\* lines 153-165 (without the null of line 165)
ArrayCandidates(s) ==
  LET items_schema == Get(s, k_items, Dict(<<>>))
      minItems == Get(s, k_minItems, None)
      tail == IF HasKey(s, k_minItems) THEN <<List(Repeat(None, IntOf(minItems)))>>
              ELSE <<>>
  IN  IF HasKey(s, k_minItems) /\ minItems.t # "int" THEN Raise("TypeError")
      ELSE IF items_schema.t = "dict" THEN
        LET ic == _get_candidates_for_type(items_schema, None) IN
        IF ic.exc # "" THEN ic
        ELSE Ok(ARRAY_EDGE_CASES
                \o [i \in 1..Len(Take(ic.v, WrappedItems)) |-> List(<<ic.v[i]>>)]
                \o tail)
      ELSE Ok(ARRAY_EDGE_CASES \o tail)

\* lines 172-176: obj[key] = cs[0] for the first properties, from item i on
SampleProperties(props, i, obj) ==
  IF i > Len(props) \/ i > SampledProperties THEN Ok(obj)
  ELSE LET cs == _get_candidates_for_type(props[i].v, None) IN
       IF cs.exc # "" THEN cs
       ELSE SampleProperties(props, i + 1,
                             IF Len(cs.v) > 0 THEN Put(obj, props[i].k, cs.v[1]) ELSE obj)

\* the mutant of line 171 that samples one object more
ObjectCandidates_four(s) ==
  LET props == Get(s, k_properties, Dict(<<>>)) IN
  IF Truthy(props) THEN
    IF props.t # "dict" THEN Raise("AttributeError")
    ELSE LET obj == SampleProperties(props.v, 1, <<>>) IN
         IF obj.exc # "" THEN obj
         ELSE Ok(OBJECT_EDGE_CASES \o [i \in 1..(SampledObjects + 1) |-> Dict(obj.v)])
  ELSE Ok(OBJECT_EDGE_CASES)

\* lines 167-181 (without the null of line 181)
ObjectCandidates(s) ==
  LET props == Get(s, k_properties, Dict(<<>>)) IN
  IF Truthy(props) THEN
    IF props.t # "dict" THEN Raise("AttributeError")
    ELSE LET obj == SampleProperties(props.v, 1, <<>>) IN
         IF obj.exc # "" THEN obj
         ELSE Ok(OBJECT_EDGE_CASES \o [i \in 1..SampledObjects |-> Dict(obj.v)])
  ELSE Ok(OBJECT_EDGE_CASES)

\* lines 82-186; schema.get raises AttributeError when schema is not a dict
_get_candidates_for_type(sch, fallback_type) ==
  IF sch.t # "dict" THEN Raise("AttributeError")
  ELSE
    LET s == sch.v
        ty == ResolveType(s, fallback_type)
        AddNull(r) == IF r.exc # "" THEN r ELSE Ok(_add_null(ty.nullable, r.v))
    IN  IF HasKey(s, k_enum) THEN EnumCandidates(s, ty.nullable)
        ELSE IF ty.schema_type = Str(<<"n", "u", "m", "b", "e", "r">>) THEN AddNull(NumberCandidates(s))
        ELSE IF ty.schema_type = Str(<<"i", "n", "t", "e", "g", "e", "r">>) THEN AddNull(IntegerCandidates(s))
        ELSE IF ty.schema_type = Str(<<"s", "t", "r", "i", "n", "g">>) THEN AddNull(StringCandidates(s))
        ELSE IF ty.schema_type = Str(<<"b", "o", "o", "l", "e", "a", "n">>) THEN AddNull(Ok(BOOLEAN_EDGE_CASES))
        ELSE IF ty.schema_type = Str(<<"a", "r", "r", "a", "y">>) THEN AddNull(ArrayCandidates(s))
        ELSE IF ty.schema_type = Str(<<"o", "b", "j", "e", "c", "t">>) THEN AddNull(ObjectCandidates(s))
        ELSE AddNull(Ok(UnknownCandidates))

(***************************************************************************)
(* generate_edge_cases                                                     *)
(***************************************************************************)
p_value == <<"v", "a", "l", "u", "e">>

\* lines 219-220: the candidates of a property whose schema is not a dict
FallbackCandidates ==
  <<None, IntV(0), Str(<<>>), Bool(TRUE), Bool(FALSE), List(<<>>), Dict(<<>>)>>

\* path or "value"
OrValue(path) == IF Len(path) > 0 THEN path ELSE p_value
\* f"{path}.{key}" if path else key
PropertyPath(path, key) == IF Len(path) > 0 THEN path \o <<".">> \o key ELSE key
\* f"{path}[]" if path else "[]"
ItemPath(path) == IF Len(path) > 0 THEN path \o <<"[", "]">> ELSE <<"[", "]">>

RECURSIVE _walk(_, _, _), WalkProperties(_, _, _, _)

\* line 218 and the next turn of the loop, sub being what _walk(prop_schema) gave
WalkRest(props, i, path, sub) ==
  IF sub.exc # "" THEN sub ELSE WalkProperties(props, i + 1, path, sub.v)

\* lines 217-218, cs being what _get_candidates_for_type(prop_schema) gave
WalkProperty(props, i, path, res, cs) ==
  IF cs.exc # "" THEN cs
  ELSE WalkRest(props, i, path,
                _walk(props[i].v, PropertyPath(path, props[i].k),
                      Put(res, PropertyPath(path, props[i].k), cs.v)))

\* lines 214-220: the loop over props.items(), from item i on
WalkProperties(props, i, path, res) ==
  IF i > Len(props) THEN Ok(res)
  ELSE IF props[i].v.t = "dict"
  THEN WalkProperty(props, i, path, res, _get_candidates_for_type(props[i].v, None))
  ELSE WalkProperties(props, i + 1, path,
                      Put(res, PropertyPath(path, props[i].k), FallbackCandidates))

\* lines 228-229, ic being what _get_candidates_for_type(items) gave
WalkItems(items, path, res, ic) ==
  IF ic.exc # "" THEN ic
  ELSE _walk(items, ItemPath(path), Put(res, ItemPath(path), ic.v))

\* lines 210-233, own being what _get_candidates_for_type(s) gave
WalkNode(s, path, res, schema_type, own) ==
  IF own.exc # "" THEN own
  ELSE IF schema_type = Str(<<"o", "b", "j", "e", "c", "t">>) THEN
    IF Get(s.v, k_properties, Dict(<<>>)).t # "dict" THEN Raise("AttributeError")
    ELSE WalkProperties(Get(s.v, k_properties, Dict(<<>>)).v, 1, path,
                        Put(res, OrValue(path), own.v))
  ELSE IF schema_type = Str(<<"a", "r", "r", "a", "y">>) /\ Get(s.v, k_items, Dict(<<>>)).t = "dict" THEN
    WalkItems(Get(s.v, k_items, Dict(<<>>)), path, Put(res, OrValue(path), own.v),
              _get_candidates_for_type(Get(s.v, k_items, Dict(<<>>)), None))
  ELSE Ok(Put(res, OrValue(path), own.v))

\* lines 204-233: result after _walk(s, path), result being res before it
_walk(s, path, res) ==
  IF s.t # "dict" THEN Raise("AttributeError")
  ELSE IF HasKey(s.v, k_ref) \/ Get(s.v, k_type, None) = None THEN Ok(res)
  ELSE WalkNode(s, path, res, Get(s.v, k_type, None), _get_candidates_for_type(s, None))

\* lines 189-236
generate_edge_cases(sch) == _walk(sch, <<>>, <<>>)

(***************************************************************************)
(* generate_edge_cases_flat                                                *)
(***************************************************************************)
\* the printable ASCII characters in code point order (without the backquote)
Ascii ==
  <<" ", "!", "\"", "#", "$", "%", "&", "'", "(", ")", "*", "+", ",", "-", ".", "/",
    "0", "1", "2", "3", "4", "5", "6", "7", "8", "9", ":", ";", "<", "=", ">", "?", "@",
    "A", "B", "C", "D", "E", "F", "G", "H", "I", "J", "K", "L", "M", "N", "O", "P", "Q",
    "R", "S", "T", "U", "V", "W", "X", "Y", "Z", "[", "\\", "]", "^", "_",
    "a", "b", "c", "d", "e", "f", "g", "h", "i", "j", "k", "l", "m", "n", "o", "p", "q",
    "r", "s", "t", "u", "v", "w", "x", "y", "z", "{", "|", "}", "~">>
Ord(c) == CHOOSE i \in 1..Len(Ascii) : Ascii[i] = c
\* a < b on str
StrLT(a, b) ==
  \/ Len(a) < Len(b) /\ SubSeq(b, 1, Len(a)) = a
  \/ \E i \in 1..(IF Len(a) < Len(b) THEN Len(a) ELSE Len(b)) :
       Ord(a[i]) < Ord(b[i]) /\ SubSeq(a, 1, i - 1) = SubSeq(b, 1, i - 1)
\* sorted(s) of a list of str
RECURSIVE Insert(_, _)
Insert(x, s) ==
  IF Len(s) = 0 THEN <<x>>
  ELSE IF StrLT(x, s[1]) THEN <<x>> \o s
  ELSE <<s[1]>> \o Insert(x, Tail(s))
RECURSIVE Sorted(_)
Sorted(s) == IF Len(s) = 0 THEN <<>> ELSE Insert(s[1], Sorted(Tail(s)))

\* lines 249-252; paths[i + 1:] is what follows position i
LeafPaths_dot_only(paths) ==
  SelectSeq([i \in 1..Len(paths) |->
               IF \E j \in (i + 1)..Len(paths) : StartsWith(paths[j], paths[i] \o <<".">>)
               THEN <<>> ELSE <<paths[i]>>],
            LAMBDA x : Len(x) > 0)
LeafPaths(paths) ==
  SelectSeq([i \in 1..Len(paths) |->
               IF \E j \in (i + 1)..Len(paths) :
                    \/ StartsWith(paths[j], paths[i] \o <<".">>)
                    \/ StartsWith(paths[j], paths[i] \o <<"[", "]">>)
               THEN <<>> ELSE <<paths[i]>>],
            LAMBDA x : Len(x) > 0)

\* line 253: {p: all_cases[p] for p in leaf_paths}
PickPaths(all_cases, leaf_paths) ==
  [i \in 1..Len(leaf_paths) |-> KV(leaf_paths[i][1], Get(all_cases, leaf_paths[i][1], <<>>))]

\* lines 248-253, all_cases being what generate_edge_cases gave
FlatOf(all_cases) ==
  IF all_cases.exc # "" THEN all_cases
  ELSE Ok(PickPaths(all_cases.v, LeafPaths(Sorted(Keys(all_cases.v)))))

\* lines 239-253
generate_edge_cases_flat(sch) == FlatOf(generate_edge_cases(sch))

(***************************************************************************)
(* generate_sample_object and _set_nested.  The payload being built is the *)
(* heap cell PayloadCell; a place in the heap is a cell and the keys that  *)
(* lead from it through dicts held by no other object.                     *)
(***************************************************************************)
\* path.split(".")
RECURSIVE Split(_, _)
Split(s, sep) ==
  IF \E i \in 1..Len(s) : s[i] = sep
  THEN LET i == CHOOSE i \in 1..Len(s) : s[i] = sep /\ \A j \in 1..(i - 1) : s[j] # sep
       IN  <<SubSeq(s, 1, i - 1)>> \o Split(SubSeq(s, i + 1, Len(s)), sep)
  ELSE <<s>>

\* the value found from x by the keys
RECURSIVE Descend(_, _)
Descend(x, keys) ==
  IF Len(keys) = 0 THEN x ELSE Descend(Get(x.v, keys[1], None), Tail(keys))
\* the object at a place
At(hp, loc) == Descend(Dict(hp[loc.cell]), loc.keys)
\* x, a dict, with d[key] = value done on the dict found from it by the keys
RECURSIVE PutDeep(_, _, _, _)
PutDeep(x, keys, key, value) ==
  IF Len(keys) = 0 THEN Dict(Put(x.v, key, value))
  ELSE Dict(Put(x.v, keys[1], PutDeep(Get(x.v, keys[1], None), Tail(keys), key, value)))
\* the heap after obj[key] = value on the dict at a place
WriteAt(hp, loc, key, value) ==
  [hp EXCEPT ![loc.cell] = PutDeep(Dict(hp[loc.cell]), loc.keys, key, value).v]

\* the place of obj[key], obj being the dict at loc: the dict a reference leads to,
\* or the value held in obj itself
Follow(hp, loc, key) ==
  IF Get(At(hp, loc).v, key, None).t = "ref"
  THEN [cell |-> Get(At(hp, loc).v, key, None).v, keys |-> <<>>]
  ELSE [cell |-> loc.cell, keys |-> Append(loc.keys, key)]

\* lines 282-287, obj being the object at loc: the heap after the call, and the
\* exception it raised
RECURSIVE _set_nested(_, _, _, _)
\* line 286 and the next turn of the loop, hp being the heap after lines 284-285
SetNext(hp, loc, path, value) ==
  _set_nested(hp, Follow(hp, loc, path[1]), Tail(path), value)
_set_nested(hp, loc, path, value) ==
  IF At(hp, loc).t # "dict" THEN [exc |-> "TypeError", heap |-> hp]
  ELSE IF Len(path) = 1 THEN [exc |-> "", heap |-> WriteAt(hp, loc, path[1], value)]
  ELSE SetNext(IF HasKey(At(hp, loc).v, path[1]) THEN hp
               ELSE WriteAt(hp, loc, path[1], Dict(<<>>)),
               loc, path, value)

\* lines 274-276
SampleValue(overrides, path, candidates) ==
  IF Get(overrides, path, None).t = "none" /\ Len(candidates) > 0
  THEN candidates[1] ELSE Get(overrides, path, None)

RECURSIVE SampleFields(_, _, _, _)
\* the next turn of the loop, set being what _set_nested gave
SampleRest(cases, i, overrides, set) ==
  IF set.exc # "" THEN set ELSE SampleFields(cases, i + 1, overrides, set.heap)
\* lines 270-278: the loop over cases.items(), from item i on
SampleFields(cases, i, overrides, hp) ==
  IF i > Len(cases) THEN [exc |-> "", heap |-> hp]
  ELSE IF \/ Contains(cases[i].k, <<"[", "]">>)
          \/ Len(cases[i].k) = 0
          \/ SampleValue(overrides, cases[i].k, cases[i].v).t = "none"
  THEN SampleFields(cases, i + 1, overrides, hp)
  ELSE SampleRest(cases, i, overrides,
                  _set_nested(hp, [cell |-> PayloadCell, keys |-> <<>>],
                              Split(cases[i].k, "."),
                              SampleValue(overrides, cases[i].k, cases[i].v)))

\* line 279: the exception raised, the dict returned and the heap after the call
SampleReturn(done) ==
  [exc |-> done.exc, v |-> IF done.exc = "" THEN done.heap[PayloadCell] ELSE <<>>,
   heap |-> done.heap]
\* lines 267-279, cases being what generate_edge_cases gave
SampleOf(cases, overrides, hp) ==
  IF cases.exc # "" THEN [exc |-> cases.exc, v |-> <<>>, heap |-> hp]
  ELSE SampleReturn(SampleFields(cases.v, 1, IF Truthy(overrides) THEN overrides.v ELSE <<>>,
                                 [hp EXCEPT ![PayloadCell] = <<>>]))

\* lines 256-279
generate_sample_object(sch, overrides, hp) == SampleOf(generate_edge_cases(sch), overrides, hp)

\* x as a caller reads it: every reference replaced by the dict it refers to
RECURSIVE Deref(_, _, _)
Deref(x, hp, seen) ==
  CASE x.t = "ref" ->
         IF x.v \in seen THEN [t |-> "cycle", v |-> x.v]
         ELSE Dict([i \in 1..Len(hp[x.v]) |->
                      KV(hp[x.v][i].k, Deref(hp[x.v][i].v, hp, seen \cup {x.v}))])
    [] x.t = "dict" -> Dict([i \in 1..Len(x.v) |-> KV(x.v[i].k, Deref(x.v[i].v, hp, seen))])
    [] x.t = "list" -> List([i \in 1..Len(x.v) |-> Deref(x.v[i], hp, seen)])
    [] OTHER -> x
Read(x, hp) == Deref(x, hp, {})

(***************************************************************************)
(* execution/http_executor.py                                              *)
(*                                                                         *)
(* requests.request either raises or gives a response.  A response holds   *)
(* its status code, its headers, the text of its body, and what resp.json()*)
(* does with that text: it gives the decoded value, or raises.             *)
(***************************************************************************)
Raised(type, msg) == [kind |-> "raise", type |-> type, msg |-> msg]
Response(status_code, headers, body) ==
  [kind |-> "response", status_code |-> status_code, headers |-> headers,
   text |-> body.text, json |-> body.json]

\* isinstance(e, requests.Timeout)
TimeoutTypes == {<<"T", "i", "m", "e", "o", "u", "t">>, <<"C", "o", "n", "n", "e", "c", "t", "T", "i", "m", "e", "o", "u", "t">>, <<"R", "e", "a", "d", "T", "i", "m", "e", "o", "u", "t">>}

\* resp.headers.get(name, ""): the headers of a response are a CaseInsensitiveDict
HeaderOf(headers, name) ==
  LET found == {i \in 1..Len(headers) : Lower(headers[i].k) = Lower(name)}
  IN  IF found = {} THEN <<>> ELSE headers[CHOOSE i \in found : TRUE].v.v

\* the timeout is given by the text str() gives for it
execute_request(method, timeout, resp) ==
  IF resp.kind = "raise" THEN
    IF resp.type \in TimeoutTypes
    THEN HttpExecutionResult(None, None,
                             Str(<<"T", "i", "m", "e", "o", "u", "t", " ", "(">> \o timeout \o <<"s", ")", ":", " ">> \o resp.msg),
                             <<>>, FALSE)
    ELSE HttpExecutionResult(None, None, Str(resp.type \o <<":", " ">> \o resp.msg),
                             <<>>, FALSE)
  ELSE
    LET content_type == HeaderOf(resp.headers, <<"C", "o", "n", "t", "e", "n", "t", "-", "T", "y", "p", "e">>) IN
    IF Contains(content_type, <<"a", "p", "p", "l", "i", "c", "a", "t", "i", "o", "n", "/", "j", "s", "o", "n">>) THEN
      IF resp.json.exc = "" THEN
        HttpExecutionResult(resp.status_code, resp.json.v, None, resp.headers, TRUE)
      ELSE IF resp.json.exc = "ValueError" THEN
        HttpExecutionResult(resp.status_code, Str(resp.text), None, resp.headers, TRUE)
      ELSE
        \* caught by the outer except Exception, after status and success were set
        HttpExecutionResult(resp.status_code, None,
                            Str(resp.json.type \o <<":", " ">> \o resp.json.msg),
                            resp.headers, TRUE)
    ELSE
      HttpExecutionResult(resp.status_code,
                          IF Len(resp.text) > 0 THEN Bytes(resp.text) ELSE Str(resp.text),
                          None, resp.headers, TRUE)

(***************************************************************************)
(* What the transport does with a request.                                 *)
(***************************************************************************)
\* what resp.json() does: it gives a value, or raises an exception of a class
JsonGives(x) == [exc |-> "", v |-> x, type |-> <<>>, msg |-> <<>>]
JsonRaises(class, type, msg) == [exc |-> class, v |-> None, type |-> type, msg |-> msg]
\* a body a server serialized from a JSON value: resp.json() gives the value back
JsonBody(x) == [text |-> json_dumps(x), json |-> JsonGives(x)]
\* a body that is no JSON text: resp.json() raises JSONDecodeError, a ValueError
TextBody(s) ==
  [text |-> s,
   json |-> JsonRaises("ValueError", <<"J", "S", "O", "N", "D", "e", "c", "o", "d", "e", "E", "r", "r", "o", "r">>, <<"E", "x", "p", "e", "c", "t", "i", "n", "g", " ", "v", "a", "l", "u", "e">>)]
\* a JSON text nested deeper than the decoder's recursion limit, of which the
\* first brackets are kept: resp.json() raises RecursionError, no ValueError
DeepBody ==
  [text |-> <<"[", "[", "[", "[">>,
   json |-> JsonRaises("Exception", <<"R", "e", "c", "u", "r", "s", "i", "o", "n", "E", "r", "r", "o", "r">>,
                       <<"m", "a", "x", "i", "m", "u", "m", " ", "r", "e", "c", "u", "r", "s", "i", "o", "n", " ", "d", "e", "p", "t", "h", " ", "e", "x", "c", "e", "e", "d", "e", "d">>)]
ReplyBodies ==
  {JsonBody(Dict(<<KV(<<"a">>, IntV(1))>>)), JsonBody(List(<<>>)), JsonBody(IntV(5)),
   JsonBody(Str(<<"x">>)), JsonBody(Bool(TRUE)), JsonBody(None),
   TextBody(<<"<", "h", "t", "m", "l", ">">>), TextBody(<<>>), TextBody(<<"{", "\"", "a", "\"", ":">>), DeepBody}
ReplyStatuses == {IntV(200), IntV(404), IntV(500)}
ReplyHeaders ==
  {<<>>,
   <<KV(<<"C", "o", "n", "t", "e", "n", "t", "-", "T", "y", "p", "e">>, Str(<<"a", "p", "p", "l", "i", "c", "a", "t", "i", "o", "n", "/", "j", "s", "o", "n">>))>>,
   <<KV(<<"C", "o", "n", "t", "e", "n", "t", "-", "T", "y", "p", "e">>, Str(<<"a", "p", "p", "l", "i", "c", "a", "t", "i", "o", "n", "/", "j", "s", "o", "n", ";", " ", "c", "h", "a", "r", "s", "e", "t", "=", "u", "t", "f", "-", "8">>))>>,
   <<KV(<<"C", "o", "n", "t", "e", "n", "t", "-", "T", "y", "p", "e">>, Str(<<"t", "e", "x", "t", "/", "h", "t", "m", "l">>))>>,
   <<KV(<<"c", "o", "n", "t", "e", "n", "t", "-", "t", "y", "p", "e">>, Str(<<"a", "p", "p", "l", "i", "c", "a", "t", "i", "o", "n", "/", "j", "s", "o", "n">>))>>}
Replies ==
  {Response(s, h, b) : s \in ReplyStatuses, h \in ReplyHeaders, b \in ReplyBodies}
  \cup {Raised(<<"R", "e", "a", "d", "T", "i", "m", "e", "o", "u", "t">>, <<"r", "e", "a", "d">>), Raised(<<"C", "o", "n", "n", "e", "c", "t", "T", "i", "m", "e", "o", "u", "t">>, <<"c", "o", "n", "n", "e", "c", "t">>),
        Raised(<<"T", "i", "m", "e", "o", "u", "t">>, <<>>), Raised(<<"C", "o", "n", "n", "e", "c", "t", "i", "o", "n", "E", "r", "r", "o", "r">>, <<"r", "e", "f", "u", "s", "e", "d">>),
        Raised(<<"S", "S", "L", "E", "r", "r", "o", "r">>, <<"b", "a", "d", " ", "h", "a", "n", "d", "s", "h", "a", "k", "e">>), Raised(<<"C", "o", "n", "n", "e", "c", "t", "i", "o", "n", "E", "r", "r", "o", "r">>, <<"R", "e", "a", "d", " ", "t", "i", "m", "e", "d", " ", "o", "u", "t", ".">>),
        Raised(<<"R", "u", "n", "t", "i", "m", "e", "E", "r", "r", "o", "r">>, <<>>)}
TimeoutTexts == {<<"1", "0", ".", "0">>, <<"0", ".", "5">>}

ExecuteRequest(timeout, sent) ==
  /\ reply' = sent
  /\ result' = execute_request(<<"p", "o", "s", "t">>, timeout, sent)
  /\ classification' = None
  /\ UNCHANGED <<svcVars, requests, genVars, repVars>>

(***************************************************************************)
(* The schemas the generator is called with                                *)
(***************************************************************************)
\* a key a schema dict may leave out
Absent == [t |-> "absent", v |-> 0]
Opt(k, x) == IF x = Absent THEN <<>> ELSE <<KV(k, x)>>

\* the largest minLength and maxLength tried below the cap of 1000
MaxLen == 2

Enums == {Absent, List(<<IntV(7), IntV(-3)>>), List(<<Str(<<"b">>), None, Str(<<"a">>)>>)}
Nullables == {Absent, Bool(TRUE)}
NumericTypes ==
  {Str(<<"n", "u", "m", "b", "e", "r">>), Str(<<"i", "n", "t", "e", "g", "e", "r">>), List(<<Str(<<"n", "u", "m", "b", "e", "r">>), Str(<<"n", "u", "l", "l">>)>>),
   List(<<Str(<<"n", "u", "l", "l">>), Str(<<"i", "n", "t", "e", "g", "e", "r">>)>>), List(<<Str(<<"n", "u", "m", "b", "e", "r">>)>>)}
NumericBounds ==
  {Absent, IntV(-1), IntV(0), FloatV(FALSE, <<0, 0, 0, 0>>, <<50000, 0>>),
   BigInt(FALSE, <<0, 0, 21474, 83647>>)}
StringTypes ==
  {Str(<<"s", "t", "r", "i", "n", "g">>), List(<<Str(<<"s", "t", "r", "i", "n", "g">>), Str(<<"n", "u", "l", "l">>)>>), List(<<Str(<<"s", "t", "r", "i", "n", "g">>)>>)}
Formats == {Absent, Str(<<"e", "m", "a", "i", "l">>)}
MinLengths == {Absent} \cup {IntV(n) : n \in 0..MaxLen}
MaxLengths == {Absent, IntV(0), IntV(MaxLen), IntV(MaxFiller), IntV(MaxFiller + 1)}
OtherTypes == {Absent, Str(<<"b", "o", "o", "l", "e", "a", "n">>), Str(<<"m", "y", "s", "t", "e", "r", "y">>), List(<<Str(<<"n", "u", "l", "l">>)>>)}

NumericNodes ==
  {Dict(Opt(k_type, ty) \o Opt(k_nullable, nu) \o Opt(k_enum, en)
        \o Opt(k_minimum, mn) \o Opt(k_maximum, mx)) :
     ty \in NumericTypes, nu \in Nullables, en \in Enums,
     mn \in NumericBounds, mx \in NumericBounds}
StringNodes ==
  {Dict(Opt(k_type, ty) \o Opt(k_nullable, nu) \o Opt(k_enum, en) \o Opt(k_format, fm)
        \o Opt(k_minLength, mn) \o Opt(k_maxLength, mx)) :
     ty \in StringTypes, nu \in Nullables, en \in Enums, fm \in Formats,
     mn \in MinLengths, mx \in MaxLengths}
OtherNodes ==
  {Dict(Opt(k_type, ty) \o Opt(k_nullable, nu) \o Opt(k_enum, en)) :
     ty \in OtherTypes, nu \in Nullables, en \in Enums}
ScalarNodes == NumericNodes \cup StringNodes \cup OtherNodes

GetCandidates ==
  /\ calls < MaxCalls
  /\ op' = "candidates"
  /\ ret' = _get_candidates_for_type(schema, None)
  /\ calls' = calls + 1
  /\ UNCHANGED <<svcVars, schema, field_overrides, heap, clsVars, repVars>>

(***************************************************************************)
(* Object and array schemas                                                *)
(***************************************************************************)
Object(props) == Dict(<<KV(k_type, Str(<<"o", "b", "j", "e", "c", "t">>)), KV(k_properties, Dict(props))>>)
Array(items) == Dict(<<KV(k_type, Str(<<"a", "r", "r", "a", "y">>)), KV(k_items, items)>>)
IntegerNode == Dict(<<KV(k_type, Str(<<"i", "n", "t", "e", "g", "e", "r">>))>>)
StringNode == Dict(<<KV(k_type, Str(<<"s", "t", "r", "i", "n", "g">>))>>)
NullableString == Dict(<<KV(k_type, Str(<<"s", "t", "r", "i", "n", "g">>)), KV(k_nullable, Bool(TRUE))>>)
\* minimum > maximum: no candidate is left
EmptyNumber ==
  Dict(<<KV(k_type, Str(<<"n", "u", "m", "b", "e", "r">>)), KV(k_minimum, IntV(1)), KV(k_maximum, IntV(0))>>)
RefNode == Dict(<<KV(k_ref, Str(<<"#", "/", "c", "o", "m", "p", "o", "n", "e", "n", "t", "s", "/", "s", "c", "h", "e", "m", "a", "s", "/", "U", "s", "e", "r">>))>>)
EmptyObject == Dict(<<KV(k_type, Str(<<"o", "b", "j", "e", "c", "t">>))>>)
NullableObject ==
  Dict(<<KV(k_type, Str(<<"o", "b", "j", "e", "c", "t">>)), KV(k_nullable, Bool(TRUE)),
         KV(k_properties, Dict(<<KV(<<"b">>, IntegerNode)>>))>>)

\* six properties, the third without a candidate
SixProperties ==
  Object(<<KV(<<"a">>, IntegerNode), KV(<<"b">>, NullableString), KV(<<"c">>, EmptyNumber),
           KV(<<"d">>, IntegerNode), KV(<<"e">>, StringNode), KV(<<"f">>, IntegerNode)>>)

InnerNodes ==
  {IntegerNode, NullableString, EmptyNumber, RefNode, EmptyObject, NullableObject,
   Array(IntegerNode), Array(Object(<<KV(<<"b">>, IntegerNode)>>)),
   Object(<<KV(<<"b">>, IntegerNode)>>), Object(<<KV(<<"e", "m", "a", "i", "l">>, NullableString)>>),
   Object(<<KV(<<"b">>, EmptyObject)>>)}
PairNodes == {IntegerNode, Array(IntegerNode), Object(<<KV(<<"b">>, IntegerNode)>>)}
PropertyNames == {<<"a">>, <<"v", "a", "l", "u", "e">>}
PropertyPairs == {<<<<"a">>, <<"c">>>>, <<<<"a", ".", "b">>, <<"a">>>>, <<<<"a">>, <<"a", ".", "b">>>>}

Schemas ==
  {Object(<<KV(n, x)>>) : n \in PropertyNames, x \in InnerNodes}
  \cup {Object(<<KV(p[1], x), KV(p[2], y)>>) :
          p \in PropertyPairs, x \in PairNodes, y \in PairNodes}
  \cup {Object(<<KV(<<"b">>, IntegerNode)>>),
        Object(<<KV(<<"u", "s", "e", "r">>, Object(<<KV(<<"e", "m", "a", "i", "l">>, StringNode)>>))>>),
        Object(<<KV(<<"a", ".", "b">>, IntegerNode)>>),
        IntegerNode, NullableString, RefNode, EmptyObject, Array(IntegerNode),
        Array(Object(<<KV(<<"b">>, IntegerNode)>>)), Array(Bool(TRUE)),
        Array(RefNode), SixProperties, NullableObject, Str(<<"i", "n", "t", "e", "g", "e", "r">>),
        Object(<<KV(<<"a">>, Str(<<"i", "n", "t", "e", "g", "e", "r">>))>>),
        Dict(<<KV(k_type, Str(<<"o", "b", "j", "e", "c", "t">>)), KV(k_properties, List(<<>>))>>),
        Dict(<<KV(k_type, Str(<<"o", "b", "j", "e", "c", "t">>)), KV(k_enum, List(<<Dict(<<>>)>>)),
               KV(k_properties, Dict(<<KV(<<"a">>, Str(<<"i", "n", "t", "e", "g", "e", "r">>)), KV(<<"c">>, IntegerNode)>>))>>)}

\* the override values a caller passes, call n passing its own dict
OverrideValues(n) == {None, IntV(0), Ref(OverrideCell(n))}
\* the paths a caller overrides: the paths of the walk, and one that is no path
PathsOf(cases) ==
  {<<"z", "z">>} \cup (IF cases.exc = "" THEN {cases.v[i].k : i \in 1..Len(cases.v)} ELSE {})
OverridePaths(sch) == PathsOf(generate_edge_cases(sch))
Overrides(sch, n) ==
  {None} \cup {Dict(<<KV(p, x)>>) : p \in OverridePaths(sch), x \in OverrideValues(n)}

GenerateEdgeCases ==
  /\ calls < MaxCalls
  /\ op' = "generate_edge_cases"
  /\ ret' = generate_edge_cases(schema)
  /\ calls' = calls + 1
  /\ UNCHANGED <<svcVars, schema, field_overrides, heap, clsVars, repVars>>

GenerateEdgeCasesFlat ==
  /\ calls < MaxCalls
  /\ op' = "generate_edge_cases_flat"
  /\ ret' = generate_edge_cases_flat(schema)
  /\ calls' = calls + 1
  /\ UNCHANGED <<svcVars, schema, field_overrides, heap, clsVars, repVars>>

GenerateSampleObject(overrides) ==
  /\ calls < MaxCalls
  /\ \E done \in {generate_sample_object(schema, overrides, heap)} :
       /\ ret' = [exc |-> done.exc, v |-> done.v]
       /\ heap' = done.heap
  /\ op' = "generate_sample_object"
  /\ field_overrides' = overrides
  /\ calls' = calls + 1
  /\ UNCHANGED <<svcVars, schema, clsVars, repVars>>

(***************************************************************************)
(* core/runner.py: run, on one endpoint.  Every turn of the inner loop is  *)
(* one step: it builds a payload, sends it and appends the log entry; the  *)
(* number of entries appended so far tells which turn comes next.          *)
(***************************************************************************)
\* the mutant of values[:3] that takes every value
FirstThree_all(values) == values

\* values[:3]
FirstThree(values) == SubSeq(values, 1, IF Len(values) < 3 THEN Len(values) ELSE 3)

\* lines 73-74: the turns of the two loops over edge_cases.items(), from item i on
RECURSIVE RunProbes(_, _)
RunProbes(edge_cases, i) ==
  IF i > Len(edge_cases) THEN <<>>
  ELSE [j \in 1..Len(FirstThree(edge_cases[i].v)) |->
          [field |-> edge_cases[i].k, v |-> FirstThree(edge_cases[i].v)[j]]]
       \o RunProbes(edge_cases, i + 1)

RunMethod == <<"p", "o", "s", "t">>
RunUrl == <<"h", "t", "t", "p", ":", "/", "/", "h", "/", "d">>
RunTimeout == <<"1", "0", ".", "0">>
\* what the transport does with the requests of a scan
RunReplies ==
  {Response(IntV(200), <<KV(<<"C", "o", "n", "t", "e", "n", "t", "-", "T", "y", "p", "e">>, Str(<<"a", "p", "p", "l", "i", "c", "a", "t", "i", "o", "n", "/", "j", "s", "o", "n">>))>>,
            JsonBody(Dict(<<>>))),
   Response(IntV(500), <<>>, TextBody(<<"b", "o", "o", "m">>))}

\* lines 83-89 and 102-108: what execute_request is called with, json being
\* the body as it is serialized for the request
Request(method, url, params, json) ==
  [method |-> method, url |-> url, params |-> params, json |-> json]

\* the log entries as they read when the heap is hp
RECURSIVE Logged(_, _)
Logged(es, hp) ==
  IF Len(es) = 0 THEN <<>>
  ELSE <<[es[1] EXCEPT !.json_body = Read(es[1].json_body, hp)]>> \o Logged(Tail(es), hp)

\* lines 83-99, json_body being the payload and hp the heap when it is sent;
\* the log entry holds the payload object itself
RunSend(json_body, hp, sent) ==
  /\ requests' = Append(requests, Request(RunMethod, RunUrl, None, Read(json_body, hp)))
  /\ reply' = sent
  /\ result' = execute_request(RunMethod, RunTimeout, sent)
  /\ entries' = Append(entries,
                       ExecutionLogEntry(RunMethod, RunUrl, Dict(<<>>), None, json_body, None,
                                         Obj(execute_request(RunMethod, RunTimeout, sent))))

\* lines 75-81, done being what generate_sample_object gave
RunPayload(done, overrides, sent) ==
  /\ heap' = done.heap
  /\ ret' = [exc |-> done.exc, v |-> done.v]
  /\ field_overrides' = overrides
  /\ RunSend(IF done.exc = "" THEN Dict(done.v) ELSE Dict(<<>>), done.heap, sent)

\* lines 74-99: one turn of the inner loop
RunProbe(probe, sent) ==
  RunPayload(generate_sample_object(schema, Dict(<<KV(probe.field, probe.v)>>), heap),
             Dict(<<KV(probe.field, probe.v)>>), sent)

\* the turns of the loops of a run on the schema
ProbesOf(edge_cases) == IF edge_cases.exc = "" THEN RunProbes(edge_cases.v, 1) ELSE <<>>

\* lines 70-99: the next request of an endpoint with a request body schema
RunRequest(sent) ==
  /\ op \in {"init", "run"}
  /\ report = None
  /\ Truthy(schema)
  /\ \E probes \in {ProbesOf(generate_edge_cases_flat(schema))} :
       /\ Len(entries) < Len(probes)
       /\ RunProbe(probes[Len(entries) + 1], sent)
  /\ op' = "run"
  /\ calls' = calls + 1
  /\ UNCHANGED <<svcVars, schema, classification, report, console>>

\* lines 100-118: the one request of an endpoint without a request body schema
RunBare(sent) ==
  /\ op = "init"
  /\ ~Truthy(schema)
  /\ RunSend(None, heap, sent)
  /\ op' = "run"
  /\ UNCHANGED <<svcVars, schema, field_overrides, ret, heap, calls, classification, report, console>>

\* line 71: generate_edge_cases_flat raises and run with it
RunRaises ==
  /\ op = "init"
  /\ Truthy(schema)
  /\ generate_edge_cases_flat(schema).exc # ""
  /\ op' = "run"
  /\ ret' = generate_edge_cases_flat(schema)
  /\ UNCHANGED <<svcVars, schema, field_overrides, heap, calls, clsVars, repVars>>

\* line 120: every request was sent
RunReturn ==
  /\ report = None
  /\ IF Truthy(schema)
     THEN /\ generate_edge_cases_flat(schema).exc = ""
          /\ Len(entries) = Len(ProbesOf(generate_edge_cases_flat(schema)))
     ELSE op = "run"
  /\ report' = Obj(generate_report(Logged(entries, heap)))
  /\ op' = "run"
  /\ UNCHANGED <<svcVars, schema, field_overrides, ret, heap, calls, clsVars, entries, console>>

\* the request body schemas of the endpoints scanned
RunSchemas ==
  {Object(<<KV(<<"b">>, IntegerNode)>>),
   Object(<<KV(<<"u", "s", "e", "r">>, Object(<<KV(<<"e", "m", "a", "i", "l">>, StringNode)>>))>>),
   Object(<<KV(<<"a">>, EmptyNumber)>>),
   Object(<<KV(<<"a">>, Dict(<<KV(k_type, Str(<<"b", "o", "o", "l", "e", "a", "n">>))>>))>>),
   Object(<<KV(<<"a">>, Array(IntegerNode))>>),
   Dict(<<KV(k_type, Str(<<"o", "b", "j", "e", "c", "t">>)), KV(k_enum, List(<<Dict(<<>>)>>)),
          KV(k_properties, Dict(<<KV(<<"a">>, Str(<<"i", "n", "t", "e", "g", "e", "r">>)), KV(<<"c">>, IntegerNode)>>))>>),
   IntegerNode, NullableString, RefNode, EmptyObject, Array(IntegerNode),
   Dict(<<>>), None, Str(<<"i", "n", "t", "e", "g", "e", "r">>), Object(<<KV(<<"a">>, Str(<<"i", "n", "t", "e", "g", "e", "r">>))>>)}

(***************************************************************************)
(* reporting/report.py: format_report, and the command line that shows     *)
(* its text (app.py, main)                                                 *)
(***************************************************************************)
\* s.strip()
RECURSIVE StripLeft(_), StripRight(_)
StripLeft(s) ==
  IF Len(s) > 0 /\ s[1] \in {" ", "\n", "\t", "\r"} THEN StripLeft(Tail(s)) ELSE s
StripRight(s) ==
  IF Len(s) > 0 /\ s[Len(s)] \in {" ", "\n", "\t", "\r"}
  THEN StripRight(SubSeq(s, 1, Len(s) - 1)) ELSE s
Strip(s) == StripRight(StripLeft(s))

\* line 179
Heading(failure_type, n) ==
  <<"#", "#", " ">> \o failure_type \o <<" ", "(">> \o StrOfNat(n) \o <<" ", "o", "c", "c", "u", "r", "r", "e", "n", "c", "e", "(", "s", ")", ")">>

\* the mutant of line 182 that numbers the examples from 0
ExampleLabel_from_zero(i) == <<"#", "#", "#", " ", "E", "x", "a", "m", "p", "l", "e", " ">> \o StrOfNat(i - 1)

\* line 182
ExampleLabel(i) == <<"#", "#", "#", " ", "E", "x", "a", "m", "p", "l", "e", " ">> \o StrOfNat(i)

\* lines 181-184: the lines of the commands from command i on
RECURSIVE ExampleLines(_, _)
ExampleLines(curls, i) ==
  IF i > Len(curls) THEN <<>>
  ELSE <<ExampleLabel(i), curls[i], <<>>>> \o ExampleLines(curls, i + 1)

\* lines 179-185: the lines of the kinds from kind i of the sorted kinds on
RECURSIVE KindLines(_, _, _)
KindLines(rep, kinds, i) ==
  IF i > Len(kinds) THEN <<>>
  ELSE <<Heading(kinds[i], Len(Get(rep, kinds[i], <<>>))), <<>>>>
       \o ExampleLines(Get(rep, kinds[i], <<>>), 1)
       \o << <<>> >>
       \o KindLines(rep, kinds, i + 1)

format_report(rep) == Strip(Join(<<"\n">>, KindLines(rep, Sorted(Keys(rep)), 1)))

\* what main has shown, and the exit status it returns
Shown(what, text, status) == Obj([shown |-> what, text |-> text, status |-> status])

\* main, lines 236-253, formatted_report being what format_report gave
MainShows(formatted_report) ==
  console' = IF Len(formatted_report) > 0
             THEN Shown("FAILURE REPORT", formatted_report, 0)
             ELSE Shown("No failures detected!", <<>>, 0)

\* main, lines 229-262: the workflow returned a report
Main ==
  /\ console = None
  /\ report.t = "object"
  /\ MainShows(format_report(report.v))
  /\ UNCHANGED <<svcVars, entries, report, genVars, clsVars>>

\* main, lines 255-260: the discovery of the surface raised
MainFails ==
  /\ console = None
  /\ report = None
  /\ entries = <<>>
  /\ console' = Shown("Error", <<>>, 1)
  /\ UNCHANGED <<svcVars, entries, report, genVars, clsVars>>

(***************************************************************************)
(* ffte_api_fixed.py: the scan service.  The request handlers are          *)
(* coroutines without an await, so the event loop runs them one at a time; *)
(* run_scan is a plain function given to BackgroundTasks, which runs it in *)
(* a worker thread after the response of start_scan was sent, so its steps *)
(* interleave with the steps of the handlers and of the other run_scans.   *)
(* A step is one section under scan_manager.lock, or one read of a field   *)
(* of a scan dict, which the handlers do without the lock.                 *)
(***************************************************************************)
\* the most scans started
MaxScans == 1

\* datetime.now()
Now == [t |-> "datetime", v |-> 0]

\* lines 268-280: the dict start_scan stores, with the fields the handlers and
\* run_scan read or write after that
NewScan(scan_id, url) ==
  [scan_id |-> scan_id, target_url |-> url, status |-> "pending", progress |-> 0,
   end_time |-> None, tests_executed |-> 0, failures_found |-> 0, results |-> None,
   error |-> None]

\* self.scans[scan_id].update(kwargs)
DictUpdate(d, kwargs) == [f \in DOMAIN d |-> IF f \in DOMAIN kwargs THEN kwargs[f] ELSE d[f]]

\* the mutant of lines 78-79 that stores the update of a scan that is not stored
update_scan_unchecked(store, scan_id, kwargs) ==
  [i \in DOMAIN store \cup {scan_id} |->
     IF i = scan_id
     THEN DictUpdate(IF scan_id \in DOMAIN store THEN store[scan_id]
                     ELSE NewScan(scan_id, None), kwargs)
     ELSE store[i]]

\* lines 75-79: self.scans after update_scan
update_scan(store, scan_id, kwargs) ==
  IF scan_id \in DOMAIN store
  THEN [store EXCEPT ![scan_id] = DictUpdate(@, kwargs)]
  ELSE store

\* lines 282-283: self.scans after self.scans[scan_id] = scan_data
Stored(store, scan_id, scan_data) ==
  [i \in DOMAIN store \cup {scan_id} |-> IF i = scan_id THEN scan_data ELSE store[i]]
\* line 95: self.scans after del self.scans[scan_id]
Removed(store, scan_id) == [i \in DOMAIN store \ {scan_id} |-> store[i]]

(***************************************************************************)
(* FixedFFTEScanner.scan_victim_api                                        *)
(***************************************************************************)
DivideUrl == <<"h", "t", "t", "p", ":", "/", "/", "1", "2", "7", ".", "0", ".", "0", ".", "1", ":", "8", "0", "0", "0", "/", "d", "i", "v", "i", "d", "e">>
Case(a, b) == Dict(<<KV(<<"a">>, a), KV(<<"b">>, b)>>)
MaxInt32 == BigInt(FALSE, <<0, 0, 21474, 83647>>)
MinInt32 == BigInt(TRUE, <<0, 0, 21474, 83648>>)
\* lines 113-136
test_cases ==
  <<Case(IntV(10), IntV(2)), Case(IntV(0), IntV(1)), Case(IntV(-10), IntV(5)),
    Case(IntV(0), IntV(100)), Case(BigInt(FALSE, <<0, 0, 9, 99999>>), IntV(1)),
    Case(BigInt(TRUE, <<0, 0, 9, 99999>>), IntV(1)),
    Case(IntV(10), IntV(0)), Case(IntV(0), IntV(0)), Case(IntV(-10), IntV(0)),
    Case(IntV(1), IntV(0)), Case(IntV(-1), IntV(0)),
    Case(MaxInt32, IntV(1)), Case(MinInt32, IntV(1)),
    Case(MaxInt32, IntV(0)), Case(MinInt32, IntV(0))>>

\* lines 140-154, replies[i] being what the transport does with request i
execution_entries(replies) ==
  [i \in 1..Len(test_cases) |->
     ExecutionLogEntry(<<"P", "O", "S", "T">>, DivideUrl, Dict(<<>>), None, test_cases[i], None,
                       Obj(execute_request(<<"P", "O", "S", "T">>, <<"1", "0", ".", "0">>, replies[i])))]

\* lines 161-172
failures_list(es) ==
  LET failing == SelectSeq(es, LAMBDA e : is_failure(classify(_get_result(e).v)))
  IN  [i \in 1..Len(failing) |->
         [method |-> failing[i].method, url |-> failing[i].url,
          type |-> classify(_get_result(failing[i]).v).failure_type,
          payload |-> json_dumps(failing[i].json_body)]]

\* the mutant of line 180 that counts the tests as the failures
ScanReturn_counts_tests(es, rep) ==
  [total_tests |-> Len(test_cases), failures |-> Len(es),
   failures_list |-> failures_list(es), report |-> rep,
   formatted_report |-> format_report(rep)]

\* lines 156-184, es being the entries and rep the report generated from them
ScanReturn(es, rep) ==
  [total_tests |-> Len(test_cases), failures |-> Len(failures_list(es)),
   failures_list |-> failures_list(es), report |-> rep,
   formatted_report |-> format_report(rep)]

\* lines 103-184
scan_victim_api(replies) ==
  ScanReturn(execution_entries(replies), generate_report(execution_entries(replies)))

\* what the victim API does with the requests of a scan: it answers all, it
\* fails on a division by zero, or it answers none in time
Quotient == Response(IntV(200), <<KV(<<"C", "o", "n", "t", "e", "n", "t", "-", "T", "y", "p", "e">>, Str(<<"a", "p", "p", "l", "i", "c", "a", "t", "i", "o", "n", "/", "j", "s", "o", "n">>))>>,
                     JsonBody(Dict(<<KV(<<"r", "e", "s", "u", "l", "t">>, IntV(0))>>)))
ServerError == Response(IntV(500), <<>>, TextBody(<<"I", "n", "t", "e", "r", "n", "a", "l", " ", "S", "e", "r", "v", "e", "r", " ", "E", "r", "r", "o", "r">>))
VictimReplies ==
  {[i \in 1..Len(test_cases) |-> Quotient],
   [i \in 1..Len(test_cases) |->
      IF Get(test_cases[i].v, <<"b">>, None) = IntV(0) THEN ServerError ELSE Quotient],
   [i \in 1..Len(test_cases) |-> Raised(<<"R", "e", "a", "d", "T", "i", "m", "e", "o", "u", "t">>, <<"r", "e", "a", "d", " ", "t", "i", "m", "e", "d", " ", "o", "u", "t">>)]}

\* what scan_victim_api returns, for each of them
ScanOutcomes == {scan_victim_api(replies) : replies \in VictimReplies}

(***************************************************************************)
(* The request handlers                                                    *)
(***************************************************************************)
Idle == [name |-> "idle", scan_id |-> 0, pc |-> "", status |-> "", progress |-> 0,
         end_time |-> None, tests_executed |-> 0]
Handling(name, scan_id, pc) == [Idle EXCEPT !.name = name, !.scan_id = scan_id, !.pc = pc]
NoResponseYet == [name |-> "", scan_id |-> 0, status_code |-> 0, body |-> None]
Answer(name, scan_id, status_code, body) ==
  [name |-> name, scan_id |-> scan_id, status_code |-> status_code, body |-> body]
\* the scan ids a client asks for: those of the scans, and one of no scan
AskedIds == 0..MaxScans

\* lines 256-288; the task added at line 286 runs after the response
StartScan(url) ==
  /\ handler = Idle
  /\ Len(tasks) < MaxScans
  /\ IF url = None
     THEN /\ response' = Answer("start_scan", 0, 422, None)
          /\ UNCHANGED <<scans, tasks, deleted>>
     ELSE /\ scans' = Stored(scans, Len(tasks) + 1, NewScan(Len(tasks) + 1, url))
          /\ tasks' = Append(tasks, "queued")
          /\ deleted' = Append(deleted, "")
          /\ response' = Answer("start_scan", Len(tasks) + 1, 200, Str(<<"s", "t", "a", "r", "t", "e", "d">>))
  /\ UNCHANGED <<handler, genVars, clsVars, repVars>>

\* lines 295-297: scan_manager.get_scan gives the stored dict itself
GetScanStatus(scan_id) ==
  /\ handler = Idle
  /\ IF scan_id \in DOMAIN scans
     THEN /\ handler' = Handling("get_scan_status", scan_id, "status")
          /\ UNCHANGED response
     ELSE /\ response' = Answer("get_scan_status", scan_id, 404, None)
          /\ UNCHANGED handler
  /\ UNCHANGED <<scans, tasks, deleted, genVars, clsVars, repVars>>

\* line 299: the ScanStatus built from what the handler read
ScanStatus(h, failures_found) ==
  Obj([scan_id |-> h.scan_id, status |-> h.status, progress |-> h.progress,
       end_time |-> h.end_time, tests_executed |-> h.tests_executed,
       failures_found |-> failures_found])

\* lines 301-310: the next read of a field of the dict, and the response after
\* the last one
ReadScanStatus ==
  /\ handler.name = "get_scan_status"
  /\ LET scan == scans[handler.scan_id] IN
     IF handler.pc = "status"
     THEN /\ handler' = [handler EXCEPT !.status = scan.status, !.pc = "progress"]
          /\ UNCHANGED response
     ELSE IF handler.pc = "progress"
     THEN /\ handler' = [handler EXCEPT !.progress = scan.progress, !.pc = "end_time"]
          /\ UNCHANGED response
     ELSE IF handler.pc = "end_time"
     THEN /\ handler' = [handler EXCEPT !.end_time = scan.end_time,
                                        !.pc = "tests_executed"]
          /\ UNCHANGED response
     ELSE IF handler.pc = "tests_executed"
     THEN /\ handler' = [handler EXCEPT !.tests_executed = scan.tests_executed,
                                        !.pc = "failures_found"]
          /\ UNCHANGED response
     ELSE /\ response' = Answer("get_scan_status", handler.scan_id, 200,
                                ScanStatus(handler, scan.failures_found))
          /\ handler' = Idle
  /\ UNCHANGED <<scans, tasks, deleted, genVars, clsVars, repVars>>

\* lines 348-350
GetScanResults(scan_id) ==
  /\ handler = Idle
  /\ IF scan_id \in DOMAIN scans
     THEN /\ handler' = Handling("get_scan_results", scan_id, "status")
          /\ UNCHANGED response
     ELSE /\ response' = Answer("get_scan_results", scan_id, 404, None)
          /\ UNCHANGED handler
  /\ UNCHANGED <<scans, tasks, deleted, genVars, clsVars, repVars>>

\* lines 362-369
ScanResult(scan_id, status, results) ==
  Obj([scan_id |-> scan_id, status |-> status, failures |-> results.failures,
       report |-> results.report, formatted_report |-> results.formatted_report,
       statistics |-> results.statistics])

\* lines 352-369: the read of the status, then the read of the results
ReadScanResults ==
  /\ handler.name = "get_scan_results"
  /\ LET scan == scans[handler.scan_id] IN
     IF handler.pc = "status"
     THEN IF scan.status # "completed"
          THEN /\ response' = Answer("get_scan_results", handler.scan_id, 400, None)
               /\ handler' = Idle
          ELSE /\ handler' = [handler EXCEPT !.status = scan.status, !.pc = "results"]
               /\ UNCHANGED response
     ELSE IF scan.results.t = "none"
     THEN /\ response' = Answer("get_scan_results", handler.scan_id, 404, None)
          /\ handler' = Idle
     ELSE /\ response' = Answer("get_scan_results", handler.scan_id, 200,
                                ScanResult(handler.scan_id, handler.status, scan.results.v))
          /\ handler' = Idle
  /\ UNCHANGED <<scans, tasks, deleted, genVars, clsVars, repVars>>

\* lines 333-341 and 91-97
DeleteScan(scan_id) ==
  /\ handler = Idle
  /\ IF scan_id \in DOMAIN scans
     THEN /\ scans' = Removed(scans, scan_id)
          /\ deleted' = [deleted EXCEPT ![scan_id] = tasks[scan_id]]
          /\ response' = Answer("delete_scan", scan_id, 200, Str(<<"d", "e", "l", "e", "t", "e", "d">>))
     ELSE /\ response' = Answer("delete_scan", scan_id, 404, None)
          /\ UNCHANGED <<scans, deleted>>
  /\ UNCHANGED <<tasks, handler, genVars, clsVars, repVars>>

(***************************************************************************)
(* FFTEScanner.run_scan, in its worker thread                              *)
(***************************************************************************)
At_(scan_id, pc) == scan_id \in 1..Len(tasks) /\ tasks[scan_id] = pc
Goto(scan_id, pc) == tasks' = [tasks EXCEPT ![scan_id] = pc]

\* lines 196-198
RunScanGet(scan_id) ==
  /\ At_(scan_id, "queued")
  /\ Goto(scan_id, IF scan_id \in DOMAIN scans THEN "found" ELSE "returned")
  /\ UNCHANGED <<scans, handler, response, deleted, genVars, clsVars, repVars>>

\* line 201
RunScanRunning(scan_id) ==
  /\ At_(scan_id, "found")
  /\ scans' = update_scan(scans, scan_id, [status |-> "running", progress |-> 10])
  /\ Goto(scan_id, "scanning")
  /\ UNCHANGED <<handler, response, deleted, genVars, clsVars, repVars>>

\* the mutant of lines 207-224 that sets no end_time
Completed_without_end_time(results) ==
  [status |-> "completed", progress |-> 100,
   tests_executed |-> results.total_tests, failures_found |-> results.failures,
   results |-> Obj([report |-> results.report, failures |-> results.failures_list,
                    formatted_report |-> results.formatted_report,
                    statistics |-> [total_tests |-> results.total_tests,
                                    failures |-> results.failures, endpoints |-> 1]])]

\* lines 207-224: the keyword arguments of the update
Completed(results) ==
  [status |-> "completed", progress |-> 100, end_time |-> Now,
   tests_executed |-> results.total_tests, failures_found |-> results.failures,
   results |-> Obj([report |-> results.report, failures |-> results.failures_list,
                    formatted_report |-> results.formatted_report,
                    statistics |-> [total_tests |-> results.total_tests,
                                    failures |-> results.failures, endpoints |-> 1]])]

\* lines 204-224: the scan returns and its results are stored; the scan reads
\* and writes nothing the handlers or the other scans see, so it is one step
\* with the update that follows it
RunScanCompleted(scan_id, results) ==
  /\ At_(scan_id, "scanning")
  /\ scans' = update_scan(scans, scan_id, Completed(results))
  /\ Goto(scan_id, "returned")
  /\ UNCHANGED <<handler, response, deleted, genVars, clsVars, repVars>>

\* lines 204 and 226-233: the scan raises, as it does when an import of lines
\* 108-110 fails
RunScanFailed(scan_id) ==
  /\ At_(scan_id, "scanning")
  /\ scans' = update_scan(scans, scan_id,
                          [status |-> "failed",
                           error |-> Str(<<"N", "o", " ", "m", "o", "d", "u", "l", "e", " ", "n", "a", "m", "e", "d", " ", "'", "r", "e", "q", "u", "e", "s", "t", "s", "'">>),
                           progress |-> 100, end_time |-> Now])
  /\ Goto(scan_id, "returned")
  /\ UNCHANGED <<handler, response, deleted, genVars, clsVars, repVars>>

(***************************************************************************)
(* Properties                                                              *)
(***************************************************************************)
Priority == <<TIMEOUT, CRASH, SERVER_ERROR, CLIENT_ERROR, INVALID_JSON, NONE>>
HasErrorText(r) == r.exception.t = "str" /\ Len(r.exception.v) > 0
NamesTimeout(r) ==
  Contains(Lower(r.exception.v), <<"t", "i", "m", "e", "o", "u", "t">>) \/ Contains(Lower(r.exception.v), <<"t", "i", "m", "e", "d", " ", "o", "u", "t">>)
StatusIn(r, lo, hi) == r.status_code.t = "int" /\ IntOf(r.status_code) \in lo..hi
Applies(kind, r) ==
  CASE kind = TIMEOUT -> HasErrorText(r) /\ NamesTimeout(r)
    [] kind = CRASH -> HasErrorText(r)
    [] kind = SERVER_ERROR -> StatusIn(r, 500, 599)
    [] kind = CLIENT_ERROR -> StatusIn(r, 400, 499)
    [] kind = INVALID_JSON -> _expects_json(r) /\ ~_is_valid_json_response(r)
    [] OTHER -> TRUE

\* C1: classify returns exactly one of the six kinds, the first that applies
\* in the order timeout > crash > server_error > client_error > invalid_json >
\* none; an error text naming a timeout in any letter case is timeout whatever
\* the status code, and any other non-empty error text is crash.
C1_PriorityOrder ==
  classification.t = "object" =>
    LET kind == classification.v.failure_type
        first == CHOOSE i \in 1..6 :
                   /\ Applies(Priority[i], result)
                   /\ \A j \in 1..(i - 1) : ~Applies(Priority[j], result)
    IN  /\ kind \in FailureType
        /\ kind = Priority[first]
        /\ HasErrorText(result) /\ NamesTimeout(result) => kind = TIMEOUT
        /\ HasErrorText(result) /\ ~NamesTimeout(result) => kind = CRASH
\* an upper-case timeout text together with a 503 status is classified timeout
C1_TimeoutOverStatus ==
  /\ classification.t = "object"
  /\ result.exception.t = "str"
  /\ result.exception.v = <<"R", "e", "q", "u", "e", "s", "t", " ", "T", "I", "M", "E", "D", " ", "O", "U", "T">>
  /\ result.status_code.t = "int"
  /\ IntOf(result.status_code) = 503
  /\ classification.v.failure_type = TIMEOUT

CatalogCells == {OBJECT_EDGE_CASES[i].v : i \in 1..4}
CallerCells == {OverrideCell(n) : n \in 1..MaxCalls}

\* C2: after any sequence of generator calls the module-level catalogs and the
\* dicts the callers passed in hold exactly their initial contents.
C2_NoSharedMutableState ==
  \A c \in CatalogCells \cup CallerCells : heap[c] = InitHeap[c]

IsObjectSchema(sch) ==
  /\ sch.t = "dict"
  /\ Get(sch.v, k_type, None).t = "str"
  /\ Get(sch.v, k_type, None).v = <<"o", "b", "j", "e", "c", "t">>
  /\ Get(sch.v, k_properties, None).t = "dict"
DeclaredNames(sch) == LET props == Get(sch.v, k_properties, None).v IN {props[i].k : i \in 1..Len(props)}
ScenarioA == Object(<<KV(<<"b">>, IntegerNode)>>)

\* C3: the payload generate_sample_object returns for an object schema has no
\* top-level key but declared property names, and for the schema
\* {type: object, properties: {b: {type: integer}}} with override {b: 0} it is
\* exactly {b: 0}.
C3_NoRootPathKey ==
  (op = "generate_sample_object" /\ ret.exc = "" /\ IsObjectSchema(schema)) =>
    /\ \A i \in 1..Len(ret.v) : ret.v[i].k \in DeclaredNames(schema)
    /\ (schema = ScenarioA /\ field_overrides.t = "dict"
        /\ field_overrides.v = <<KV(<<"b">>, IntV(0))>>)
       => ret.v = <<KV(<<"b">>, IntV(0))>>

\* a key a dict does not hold
Missing == [t |-> "missing", v |-> 0]
\* the value x holds at the dotted path whose parts are given
RECURSIVE ValueAt(_, _)
ValueAt(x, parts) ==
  IF Len(parts) = 0 THEN x
  ELSE IF x.t = "dict" /\ HasKey(x.v, parts[1])
  THEN ValueAt(Get(x.v, parts[1], Missing), Tail(parts))
  ELSE Missing
\* the paths generate_sample_object sets: those of the walk that name no array item
SettablePaths(sch) ==
  LET cases == generate_edge_cases(sch)
  IN  IF cases.exc # "" THEN {}
      ELSE {cases.v[i].k : i \in {j \in 1..Len(cases.v) : ~Contains(cases.v[j].k, <<"[", "]">>)}}

\* C4: generate_sample_object(schema, {a: V}) holds V at path a, for every path a
\* it can set and every override value V, null included.
C4_OverrideHeld ==
  (/\ op = "generate_sample_object"
   /\ ret.exc = ""
   /\ field_overrides.t = "dict"
   /\ field_overrides.v[1].k \in SettablePaths(schema)) =>
    LET a == field_overrides.v[1].k
        V == field_overrides.v[1].v
        held == ValueAt(Read(Dict(ret.v), heap), Split(a, "."))
    IN  /\ held.t = Read(V, heap).t
        /\ held = Read(V, heap)

\* C5: for a schema node that has an enum, _get_candidates_for_type returns exactly
\* the enum's values in their declared order, whatever the node's type, bounds,
\* format or nullability.
C5_EnumVerbatim ==
  (op = "candidates" /\ HasKey(schema.v, k_enum)) =>
    /\ ret.exc = ""
    /\ ret.v = Get(schema.v, k_enum, None).v
\* a nullable node with both bounds and an enum gives the enum alone
C5_EnumWithBoundsAndNullable ==
  /\ op = "candidates"
  /\ HasKey(schema.v, k_enum)
  /\ HasKey(schema.v, k_nullable)
  /\ HasKey(schema.v, k_minimum)
  /\ HasKey(schema.v, k_maximum)
  /\ ret.v = <<IntV(7), IntV(-3)>>

\* nullable as the schema declares it: by the flag, or by "null" in the type list
DeclaredNullable(s) ==
  \/ Truthy(Get(s, k_nullable, Bool(FALSE)))
  \/ /\ Get(s, k_type, None).t = "list"
     /\ \E i \in 1..Len(Get(s, k_type, None).v) : Get(s, k_type, None).v[i].v = <<"n", "u", "l", "l">>
\* nullable as type resolution decides it: by "null" in the type list when the type
\* is a list, by the flag otherwise
ResolvedNullable(s) ==
  IF Get(s, k_type, None).t = "list"
  THEN \E i \in 1..Len(Get(s, k_type, None).v) : Get(s, k_type, None).v[i].v = <<"n", "u", "l", "l">>
  ELSE Truthy(Get(s, k_nullable, Bool(FALSE)))
NullFirst(r) == r.exc = "" /\ Len(r.v) > 0 /\ r.v[1].t = "none"

\* C6 as stated: for every scalar schema that is nullable by the flag or by "null"
\* in its type list, null is the first candidate, also when the schema has an enum
\* or bounds.
C6_NullFirstAsStated ==
  (op = "candidates" /\ DeclaredNullable(schema.v)) => NullFirst(ret)
\* C6: for every scalar schema without an enum that type resolution finds nullable
\* (a type list containing "null", or a type that is no list and the nullable flag
\* true), null is the first candidate, for every scalar type and with bounds.
C6_NullFirst ==
  (op = "candidates" /\ ~HasKey(schema.v, k_enum) /\ ResolvedNullable(schema.v))
    => NullFirst(ret)
\* a nullable number node with both bounds: null, then the values inside the bounds
C6_NullBeforeBounded ==
  /\ op = "candidates"
  /\ ~HasKey(schema.v, k_enum)
  /\ HasKey(schema.v, k_nullable)
  /\ Get(schema.v, k_type, None).t = "str"
  /\ Get(schema.v, k_type, None).v = <<"n", "u", "m", "b", "e", "r">>
  /\ HasKey(schema.v, k_minimum)
  /\ HasKey(schema.v, k_maximum)
  /\ NullFirst(ret)
  /\ Len(ret.v) > 1
  /\ ret.v[2].t = "int"

IsNumberSchema(s) ==
  /\ ResolveType(s, None).schema_type.t = "str"
  /\ ResolveType(s, None).schema_type.v = <<"n", "u", "m", "b", "e", "r">>
InBounds(x, s) ==
  /\ IsNumber(x)
  /\ ~isnan(x)
  /\ NumLE(Get(s, k_minimum, None), x)
  /\ NumLE(x, Get(s, k_maximum, None))
NoNaN(r) == \A i \in 1..Len(r.v) : ~isnan(r.v[i])
Bounded(r, s) ==
  /\ (HasKey(s, k_minimum) /\ HasKey(s, k_maximum))
       => \A i \in 1..Len(r.v) : r.v[i].t # "none" => InBounds(r.v[i], s)
  /\ (HasKey(s, k_minimum) \/ HasKey(s, k_maximum)) => NoNaN(r)

\* C7 as stated: for every number schema with both minimum and maximum, every
\* non-null candidate lies in [minimum, maximum] and none is NaN; NaN is dropped
\* with one bound too.
C7_WithinBoundsAsStated ==
  (op = "candidates" /\ IsNumberSchema(schema.v) /\ ret.exc = "") => Bounded(ret, schema.v)
\* C7: for every number schema without an enum that has both minimum and maximum,
\* every non-null candidate lies in [minimum, maximum] and none is NaN; NaN is
\* dropped with one bound too.
C7_WithinBounds ==
  (op = "candidates" /\ IsNumberSchema(schema.v) /\ ~HasKey(schema.v, k_enum)
   /\ ret.exc = "") => Bounded(ret, schema.v)
\* minimum -1 and maximum 0.5 keep -1 and 0.5 and drop 1
C7_BoundsKeepEnds ==
  /\ op = "candidates"
  /\ IsNumberSchema(schema.v)
  /\ ~HasKey(schema.v, k_enum)
  /\ Get(schema.v, k_minimum, None) = IntV(-1)
  /\ Get(schema.v, k_maximum, None) = FloatV(FALSE, <<0, 0, 0, 0>>, <<50000, 0>>)
  /\ \E i \in 1..Len(ret.v) : ret.v[i] = IntV(-1)
  /\ \E i \in 1..Len(ret.v) : ret.v[i] = FloatV(FALSE, <<0, 0, 0, 0>>, <<50000, 0>>)
  /\ \A i \in 1..Len(ret.v) : ret.v[i] # IntV(1)

IsStringSchema(s) ==
  /\ ResolveType(s, None).schema_type.t = "str"
  /\ ResolveType(s, None).schema_type.v = <<"s", "t", "r", "i", "n", "g">>
LengthIs(x, n) == x.t = "str" /\ Len(x.v) = n
\* the number of length bounds a schema declares
LengthBounds(s) ==
  (IF HasKey(s, k_minLength) THEN 1 ELSE 0) + (IF HasKey(s, k_maxLength) THEN 1 ELSE 0)
Capped(m) == IF m > 1000 THEN 1000 ELSE m
\* the candidates end with the catalog, the format probes and then one string per
\* declared length bound, of length minLength and of length min(maxLength, 1000)
Fillers(r, s) ==
  LET probes == FormatProbes(Get(s, k_format, Str(<<>>)))
      base == Len(r.v) - LengthBounds(s)
      before == Len(STRING_EDGE_CASES) + Len(probes)
  IN  /\ r.exc = ""
      /\ base >= before
      /\ SubSeq(r.v, base - before + 1, base) = STRING_EDGE_CASES \o probes
      /\ HasKey(s, k_minLength) =>
           \E i \in (base + 1)..Len(r.v) : LengthIs(r.v[i], IntOf(Get(s, k_minLength, None)))
      /\ HasKey(s, k_maxLength) =>
           \E i \in (base + 1)..Len(r.v) :
             LengthIs(r.v[i], Capped(IntOf(Get(s, k_maxLength, None))))

\* C8 as stated: for every string schema with minLength n the candidates contain a
\* string of length n, and with maxLength m one of length min(m, 1000), both
\* appended after the catalog and the format probes.
C8_FillersAsStated ==
  (op = "candidates" /\ IsStringSchema(schema.v)) => Fillers(ret, schema.v)
\* C8: for every string schema without an enum, with minLength n the candidates
\* contain a string of length n, and with maxLength m one of length min(m, 1000),
\* both appended after the catalog and the format probes.
C8_Fillers ==
  (op = "candidates" /\ IsStringSchema(schema.v) /\ ~HasKey(schema.v, k_enum))
    => Fillers(ret, schema.v)
\* an email schema with minLength 2 and maxLength 1001: the last two candidates
\* have 2 and 1000 characters
C8_CappedFiller ==
  /\ op = "candidates"
  /\ IsStringSchema(schema.v)
  /\ ~HasKey(schema.v, k_enum)
  /\ HasKey(schema.v, k_format)
  /\ Get(schema.v, k_minLength, None) = IntV(2)
  /\ Get(schema.v, k_maxLength, None) = IntV(1001)
  /\ LengthIs(ret.v[Len(ret.v) - 1], 2)
  /\ LengthIs(ret.v[Len(ret.v)], 1000)

\* q is a structural descendant of p
IsDescendant(q, p) == StartsWith(q, p \o <<".">>) \/ StartsWith(q, p \o <<"[", "]">>)

\* C9: the mapping generate_edge_cases_flat returns holds no two paths of which one
\* is a structural descendant of the other; every path of the walk it drops has
\* a descendant in the walk, and every path it keeps has none.
C9_LeavesOnly ==
  (op = "generate_edge_cases_flat" /\ ret.exc = "") =>
    LET walk == generate_edge_cases(schema).v
        W == {walk[i].k : i \in 1..Len(walk)}
        F == {ret.v[i].k : i \in 1..Len(ret.v)}
    IN  /\ F \subseteq W
        /\ \A p \in F, q \in F : ~IsDescendant(q, p)
        /\ \A p \in W \ F : \E q \in W : IsDescendant(q, p)
        /\ \A p \in F : \A q \in W : ~IsDescendant(q, p)
        /\ \A i \in 1..Len(ret.v) : ret.v[i].v = Get(walk, ret.v[i].k, <<>>)
\* an array property is dropped for its item path, which is kept
C9_ArrayPropertyDropped ==
  /\ op = "generate_edge_cases_flat"
  /\ ret.exc = ""
  /\ HasKey(generate_edge_cases(schema).v, <<"a">>)
  /\ HasKey(generate_edge_cases(schema).v, <<"a", "[", "]">>)
  /\ ~HasKey(ret.v, <<"a">>)
  /\ HasKey(ret.v, <<"a", "[", "]">>)

\* the kind an execution is classified to; an execution without a result has none
KindOf(e) ==
  IF _get_result(e).t = "none" THEN NONE ELSE classify(_get_result(e).v).failure_type
CountOf(es, kind) == Cardinality({i \in 1..Len(es) : KindOf(es[i]) = kind})

\* C10: the keys of generate_report's result are exactly the kinds other than none
\* that classify assigns to some execution, and under each key there is one
\* command per execution of that kind, identical commands included.
C10_ReportCounts ==
  report.t = "object" =>
    LET rep == report.v IN
    /\ \A i \in 1..Len(rep), j \in 1..Len(rep) : rep[i].k = rep[j].k => i = j
    /\ {rep[i].k : i \in 1..Len(rep)}
         = {kind \in FailureType \ {NONE} : CountOf(entries, kind) > 0}
    /\ \A i \in 1..Len(rep) :
         /\ Len(rep[i].v) = CountOf(entries, rep[i].k)
         /\ LET failing == SelectSeq(entries, LAMBDA e : KindOf(e) = rep[i].k)
            IN  rep[i].v = [j \in 1..Len(failing) |-> to_curl(failing[j])]
\* two server_error executions with the same command and one timeout
C10_ScenarioD ==
  /\ report.t = "object"
  /\ Len(report.v) = 2
  /\ \E i \in 1..2 :
       /\ report.v[i].k = SERVER_ERROR
       /\ Len(report.v[i].v) = 2
       /\ report.v[i].v[1] = report.v[i].v[2]
  /\ \E i \in 1..2 : report.v[i].k = TIMEOUT /\ Len(report.v[i].v) = 1

\* the executions es, fed in the order p gives
Reordered(es, p) == [i \in 1..Len(es) |-> es[p[i]]]
\* how many times x occurs in the list s
Occurrences(s, x) == Cardinality({i \in 1..Len(s) : s[i] = x})
\* the executions in reverse order
Reversed(es) == [i \in 1..Len(es) |-> es[Len(es) + 1 - i]]

\* C11: under each kind of the report the commands are those of the failing
\* executions of that kind in input order; grouping the same executions fed in
\* any other order gives the same kinds, under each kind the same executions
\* the same number of times, and each kind's list in the order they were fed.
C11_OrderTolerant ==
  report.t = "object" =>
    LET grouped == group_failures_by_type(entries)
        kinds == [i \in 1..Len(entries) |-> KindOf(entries[i])]
    IN
    /\ Keys(report.v) = Keys(grouped)
    /\ \A i \in 1..Len(grouped) :
         /\ grouped[i].v = SelectSeq(entries, LAMBDA e : KindOf(e) = grouped[i].k)
         /\ report.v[i].v = [j \in 1..Len(grouped[i].v) |-> to_curl(grouped[i].v[j])]
    /\ \A p \in Permutations(1..Len(entries)) :
         LET fed == Reordered(entries, p)
             regrouped == group_failures_by_type(fed)
         IN  /\ {regrouped[i].k : i \in 1..Len(regrouped)}
                  = {grouped[i].k : i \in 1..Len(grouped)}
             /\ \A i \in 1..Len(regrouped) :
                  LET kind == regrouped[i].k
                      same == Get(grouped, kind, <<>>)
                      from == SelectSeq([j \in 1..Len(entries) |-> p[j]],
                                       LAMBDA x : kinds[x] = kind)
                  IN  /\ regrouped[i].v = [j \in 1..Len(from) |-> entries[from[j]]]
                      /\ Len(regrouped[i].v) = Len(same)
                      /\ \A j \in 1..Len(same) :
                           Occurrences(regrouped[i].v, same[j]) = Occurrences(same, same[j])
\* two server_error executions with different commands and a timeout between
\* them: reversing the input reverses the commands under server_error only
C11_ReversedInput ==
  /\ report.t = "object"
  /\ Len(entries) = 3
  /\ KindOf(entries[1]) = SERVER_ERROR
  /\ KindOf(entries[2]) = TIMEOUT
  /\ KindOf(entries[3]) = SERVER_ERROR
  /\ to_curl(entries[1]) # to_curl(entries[3])
  /\ Get(report.v, SERVER_ERROR, <<>>) = <<to_curl(entries[1]), to_curl(entries[3])>>
  /\ Get(generate_report(Reversed(entries)), SERVER_ERROR, <<>>)
       = <<to_curl(entries[3]), to_curl(entries[1])>>
  /\ Get(generate_report(Reversed(entries)), TIMEOUT, <<>>) = Get(report.v, TIMEOUT, <<>>)

\* the compact serialization of a JSON value: separators "," and ":"
RECURSIVE CompactJson(_)
CompactJson(x) ==
  CASE x.t = "none" -> <<"n", "u", "l", "l">>
    [] x.t = "bool" -> IF x.v THEN <<"t", "r", "u", "e">> ELSE <<"f", "a", "l", "s", "e">>
    [] x.t = "int" -> (IF x.v.neg THEN <<"-">> ELSE <<>>) \o StrOfMag(x.v.mag)
    [] x.t = "str" -> <<"\"">> \o JsonEscape(x.v) \o <<"\"">>
    [] x.t = "list" ->
         <<"[">> \o Join(<<",">>, [i \in 1..Len(x.v) |-> CompactJson(x.v[i])]) \o <<"]">>
    [] x.t = "dict" ->
         <<"{">> \o Join(<<",">>, [i \in 1..Len(x.v) |->
                    <<"\"">> \o JsonEscape(x.v[i].k) \o <<"\"", ":">> \o CompactJson(x.v[i].v)])
         \o <<"}">>
\* text between single quotes, every single quote written '\''
ShellQuoted(s) == <<"'">> \o ReplaceChar(s, "'", <<"'", "\\", "'", "'">>) \o <<"'">>
\* the executions a command of the report was built from
BuiltFrom(cmd) == {i \in 1..Len(entries) : to_curl(entries[i]) = cmd}

\* C12: every command of the report built from an execution with a JSON body
\* holds -X and the upper-case method, the URL, and after -d the single-quoted
\* compact serialization of the body; for POST http://h/d with the body
\* {a:1, b:0} it holds "a":1 and "b":0 with no space after the colon.
C12_CompactBody ==
  report.t = "object" =>
    \A k \in 1..Len(report.v) : \A j \in 1..Len(report.v[k].v) :
      LET cmd == report.v[k].v[j] IN
      \A i \in BuiltFrom(cmd) :
        entries[i].json_body.t # "none" =>
          /\ Contains(cmd, <<"-", "X", " ">> \o Upper(entries[i].method))
          /\ Contains(cmd, entries[i].url)
          /\ Contains(cmd, <<"-", "d", " ">> \o ShellQuoted(CompactJson(entries[i].json_body)))
          /\ (/\ Upper(entries[i].method) = <<"P", "O", "S", "T">>
              /\ entries[i].url = <<"h", "t", "t", "p", ":", "/", "/", "h", "/", "d">>
              /\ entries[i].json_body = ScanBody)
             => /\ Contains(cmd, <<"-", "X", " ", "P", "O", "S", "T">>)
                /\ Contains(cmd, <<"\"", "a", "\"", ":", "1">>)
                /\ Contains(cmd, <<"\"", "b", "\"", ":", "0">>)

\* the number of content-type headers, in any letter case, a command carries
ContentTypeHeaders(cmd) ==
  Cardinality({i \in 1..Len(cmd) : StartsAt(Lower(cmd), i, <<"-", "h", " ", "\"", "c", "o", "n", "t", "e", "n", "t", "-", "t", "y", "p", "e", ":", " ">>)})
\* the number of content-type keys, in any letter case, the caller's headers hold
CallerContentTypes(e) ==
  IF e.headers.t = "dict"
  THEN Cardinality({i \in 1..Len(e.headers.v) : Lower(e.headers.v[i].k) = <<"c", "o", "n", "t", "e", "n", "t", "-", "t", "y", "p", "e">>})
  ELSE 0
\* the command ends with the JSON content-type header to_curl appends
EndsWithJsonHeader(cmd) ==
  LET h == <<"-", "H", " ", "\"", "C", "o", "n", "t", "e", "n", "t", "-", "T", "y", "p", "e", ":", " ", "a", "p", "p", "l", "i", "c", "a", "t", "i", "o", "n", "/", "j", "s", "o", "n", "\"">>
  IN  Len(cmd) >= Len(h) /\ SubSeq(cmd, Len(cmd) - Len(h) + 1, Len(cmd)) = h

\* C13: a command of the report carries one content-type header more than the
\* caller's headers hold exactly when the execution has a JSON body and the
\* caller's headers hold no content-type key in any letter case; the added one
\* is Content-Type: application/json and is then the only one; an execution
\* without a JSON body gets none added.
C13_JsonHeaderAdded ==
  report.t = "object" =>
    \A k \in 1..Len(report.v) : \A j \in 1..Len(report.v[k].v) :
      LET cmd == report.v[k].v[j] IN
      \A i \in BuiltFrom(cmd) :
        LET e == entries[i]
            added == ContentTypeHeaders(cmd) - CallerContentTypes(e)
        IN  /\ added \in {0, 1}
            /\ added = 1 <=> (e.json_body.t # "none" /\ CallerContentTypes(e) = 0)
            /\ added = 1 => (ContentTypeHeaders(cmd) = 1 /\ EndsWithJsonHeader(cmd))
            /\ e.json_body.t = "none" => added = 0
\* a JSON body sent with an upper-case CONTENT-TYPE key gets no second header
C13_UpperCaseKey ==
  /\ report.t = "object"
  /\ Len(entries) = 1
  /\ entries[1].json_body.t # "none"
  /\ entries[1].headers.t = "dict"
  /\ HasKey(entries[1].headers.v, <<"C", "O", "N", "T", "E", "N", "T", "-", "T", "Y", "P", "E">>)
  /\ ContentTypeHeaders(report.v[1].v[1]) = 1
  /\ ~EndsWithJsonHeader(report.v[1].v[1])

\* the properties of a schema dict whose schema value is not a mapping
NonMappingProperties(s) ==
  LET props == Get(s.v, k_properties, Dict(<<>>)) IN
  IF props.t # "dict" THEN {}
  ELSE {props.v[i].k : i \in {j \in 1..Len(props.v) : props.v[j].v.t # "dict"}}
\* a schema dict with a malformed fragment: a property whose schema is not a
\* mapping, properties or items that are not a mapping, an unknown or missing type
HasMalformedFragment(s) ==
  /\ s.t = "dict"
  /\ \/ NonMappingProperties(s) # {}
     \/ Get(s.v, k_properties, Dict(<<>>)).t # "dict"
     \/ Get(s.v, k_items, Dict(<<>>)).t # "dict"
     \/ Get(s.v, k_type, None)
          \notin {Str(<<"o", "b", "j", "e", "c", "t">>), Str(<<"a", "r", "r", "a", "y">>), Str(<<"s", "t", "r", "i", "n", "g">>), Str(<<"i", "n", "t", "e", "g", "e", "r">>),
                  Str(<<"n", "u", "m", "b", "e", "r">>), Str(<<"b", "o", "o", "l", "e", "a", "n">>)}

\* C14: called on a schema dict with a malformed fragment, candidates(), walk(),
\* the flat walk and sample() return a value and raise nothing, and walk() holds
\* the fallback set at the path of every property whose schema is not a mapping.
C14_NeverRaises ==
  (/\ HasMalformedFragment(schema)
   /\ op # "init"
   /\ (op = "generate_sample_object" => field_overrides = None)) =>
    /\ ret.exc = ""
    /\ op = "generate_edge_cases" =>
         \A name \in NonMappingProperties(schema) :
           Get(ret.v, name, <<>>) = FallbackCandidates

\* a response was received: success, a status code, no error text
ResponseReceived(r) == r.success /\ r.status_code.t = "int" /\ r.exception.t = "none"
\* no response: no success, no status code, a non-empty error text
NoResponse(r) ==
  ~r.success /\ r.status_code.t = "none" /\ r.exception.t = "str" /\ Len(r.exception.v) > 0

\* C15: whatever the transport does, execute_request returns an outcome; the
\* outcome is either a received response or no response, never a mix of the
\* two; every failure of the transport is a no-response outcome, and the
\* outcome of a transport timeout is classified timeout.
C15_TwoShapes ==
  reply.kind # "none" =>
    /\ ResponseReceived(result) \/ NoResponse(result)
    /\ ~(ResponseReceived(result) /\ NoResponse(result))
    /\ reply.kind = "raise" => NoResponse(result)
    /\ (reply.kind = "raise" /\ reply.type \in TimeoutTypes /\ classification.t = "object")
         => classification.v.failure_type = TIMEOUT

\* the status code is outside 400-599
NoErrorStatus(r) ==
  r.status_code.t = "int" /\ (NumLT(r.status_code, IntV(400)) \/ NumLE(IntV(600), r.status_code))
\* the response declares application/json in its Content-Type header
DeclaresJson(resp) ==
  Contains(Get(resp.headers, <<"C", "o", "n", "t", "e", "n", "t", "-", "T", "y", "p", "e">>, Str(<<>>)).v, <<"a", "p", "p", "l", "i", "c", "a", "t", "i", "o", "n", "/", "j", "s", "o", "n">>)

\* C16: the outcome of a response with a status code outside 400-599 that
\* declares application/json and whose body was taken without an error is
\* classified invalid_json exactly when the text of the body is no JSON text,
\* and none when it is one, be it an object, an array or a scalar.
C16_InvalidJsonIff ==
  (/\ reply.kind = "response"
   /\ classification.t = "object"
   /\ result.exception.t = "none"
   /\ NoErrorStatus(result)
   /\ DeclaresJson(reply)) =>
    /\ classification.v.failure_type = INVALID_JSON <=> ~json_loads_ok(reply.text)
    /\ json_loads_ok(reply.text) => classification.v.failure_type = NONE

FlagNames == {"crash", "server_error", "client_error", "timeout", "invalid_json"}
\* the flag named after a kind
FlagOf(kind) ==
  CASE kind = CRASH -> "crash"
    [] kind = SERVER_ERROR -> "server_error"
    [] kind = CLIENT_ERROR -> "client_error"
    [] kind = TIMEOUT -> "timeout"
    [] kind = INVALID_JSON -> "invalid_json"
    [] OTHER -> "none"
\* the flags of a classification that are true
FlagsSet(c) == {f \in DOMAIN c.flags : c.flags[f]}

\* C17: the flag map of every classification has the keys crash, server_error,
\* client_error, timeout and invalid_json and no other; the flags that are true
\* are the one named after the kind when the kind is not none and none at all
\* when it is none; is_failure is true exactly when the kind is not none.
C17_OneFlag ==
  classification.t = "object" =>
    LET c == classification.v IN
    /\ c.failure_type \in FailureType
    /\ DOMAIN c.flags = FlagNames
    /\ c.failure_type # NONE => FlagsSet(c) = {FlagOf(c.failure_type)}
    /\ c.failure_type = NONE => FlagsSet(c) = {}
    /\ is_failure(c) <=> c.failure_type # NONE
\* an outcome with a 404 status and an unparseable JSON body: client_error is
\* the only flag, though the invalid_json rule would apply too
C17_ClientErrorOnly ==
  /\ classification.t = "object"
  /\ result.status_code.t = "int"
  /\ IntOf(result.status_code) = 404
  /\ _expects_json(result)
  /\ ~_is_valid_json_response(result)
  /\ classification.v.failure_type = CLIENT_ERROR
  /\ FlagsSet(classification.v) = {"client_error"}
  /\ is_failure(classification.v)

\* min(3, number of candidates of the field)
RequestsFor(values) == IF Len(values) < 3 THEN Len(values) ELSE 3
\* the number of requests a scan sends for the fields before field i
RECURSIVE RequestsBefore(_, _)
RequestsBefore(fields, i) ==
  IF i <= 1 THEN 0
  ELSE RequestsBefore(fields, i - 1) + RequestsFor(fields[i - 1].v)

\* C18: in a scan of an endpoint with a request body schema, the requests are
\* sent field by field in the order of the flat mapping; request j of a field
\* is built with the field's candidate j as its override, j being at most 3
\* and at most the number of candidates; when the scan returns, every field
\* got min(3, number of candidates) requests.
C18_ThreePerField ==
  (op = "run" /\ Truthy(schema) /\ generate_edge_cases_flat(schema).exc = "") =>
    LET fields == generate_edge_cases_flat(schema).v
        total == RequestsBefore(fields, Len(fields) + 1)
    IN  /\ Len(entries) <= total
        /\ report.t = "object" => Len(entries) = total
        /\ Len(entries) > 0 =>
             \E i \in 1..Len(fields) : \E j \in 1..RequestsFor(fields[i].v) :
               /\ Len(entries) = RequestsBefore(fields, i) + j
               /\ j <= 3
               /\ field_overrides = Dict(<<KV(fields[i].k, fields[i].v[j])>>)
\* a boolean property and the object holding it: 2 requests and 3 requests
C18_TwoAndThree ==
  /\ op = "run"
  /\ report.t = "object"
  /\ schema = Object(<<KV(<<"a">>, Dict(<<KV(k_type, Str(<<"b", "o", "o", "l", "e", "a", "n">>))>>))>>)
  /\ Keys(generate_edge_cases_flat(schema).v) = <<<<"a">>, <<"v", "a", "l", "u", "e">>>>
  /\ Len(generate_edge_cases_flat(schema).v[1].v) = 2
  /\ Len(generate_edge_cases_flat(schema).v[2].v) = 7
  /\ Len(entries) = 5
  /\ field_overrides = Dict(<<KV(<<"v", "a", "l", "u", "e">>, generate_edge_cases_flat(schema).v[2].v[3])>>)


\* the heading and the label the specification words, written out
HeadingLine(kind, n) == <<"#", "#", " ">> \o kind \o <<" ", "(">> \o StrOfNat(n) \o <<" ", "o", "c", "c", "u", "r", "r", "e", "n", "c", "e", "(", "s", ")", ")">>
NumberedLabel(j) == <<"#", "#", "#", " ", "E", "x", "a", "m", "p", "l", "e", " ">> \o StrOfNat(j)
\* the positions of the lines of a text that are headings
HeadingsIn(lines) == {h \in 1..Len(lines) : StartsWith(lines[h], <<"#", "#", " ">>)}
\* kind k of the report has its heading at line h, its commands below it
RenderedAt(lines, h, kind, curls) ==
  /\ lines[h] = HeadingLine(kind, Len(curls))
  /\ h + 3 * Len(curls) <= Len(lines)
  /\ \A j \in 1..Len(curls) :
       /\ lines[h + 3 * j - 1] = NumberedLabel(j)
       /\ lines[h + 3 * j] = curls[j]

RECURSIVE NodePaths(_, _, _)
NodePaths(s, path, refs) ==
  IF s.t # "dict" THEN {}
  ELSE IF HasKey(s.v, k_ref) THEN (IF refs THEN {OrValue(path)} ELSE {})
  ELSE (IF refs THEN {} ELSE {OrValue(path)})
       \cup (IF Get(s.v, k_properties, Dict(<<>>)).t = "dict"
             THEN LET props == Get(s.v, k_properties, Dict(<<>>)).v
                  IN  UNION {NodePaths(props[i].v, PropertyPath(path, props[i].k), refs) :
                               i \in 1..Len(props)}
             ELSE {})
       \cup (IF HasKey(s.v, k_items)
             THEN NodePaths(Get(s.v, k_items, None), ItemPath(path), refs)
             ELSE {})
\* the paths at which the schema has a $ref node and no other node
RefPaths(s) == NodePaths(s, <<>>, TRUE) \ NodePaths(s, <<>>, FALSE)
\* path k is the path p or lies below it
AtOrBelow(k, p) == k = p \/ StartsWith(k, p \o <<".">>) \/ StartsWith(k, p \o <<"[", "]">>)

\* C20: the mapping generate_edge_cases returns has no entry at the path of a
\* node that carries a $ref, nor below it, the node being the root, a
\* property of an object or the items of an array.
C20_RefContributesNothing ==
  (op = "generate_edge_cases" /\ ret.exc = "") =>
    \A p \in RefPaths(schema) : \A i \in 1..Len(ret.v) : ~AtOrBelow(ret.v[i].k, p)

(***************************************************************************)
(* Paths, nested assignment, integer and object candidates, the scan loop  *)
(***************************************************************************)
RECURSIVE Flatten(_)
Flatten(ss) == IF Len(ss) = 0 THEN <<>> ELSE ss[1] \o Flatten(Tail(ss))
\* the paths the positions of a schema tree receive in one walk, one per
\* position, s being the node _walk is called on with path
RECURSIVE PositionPaths(_, _)
PositionPaths(s, path) ==
  IF s.t # "dict" \/ HasKey(s.v, k_ref) \/ Get(s.v, k_type, None) = None THEN <<>>
  ELSE LET below(c, p) == IF c.t = "dict" /\ Len(PositionPaths(c, p)) > 0
                          THEN PositionPaths(c, p) ELSE <<p>>
           props == Get(s.v, k_properties, Dict(<<>>))
           items == Get(s.v, k_items, Dict(<<>>))
       IN  <<OrValue(path)>>
           \o (IF Get(s.v, k_type, None) = Str(<<"o", "b", "j", "e", "c", "t">>) /\ props.t = "dict"
               THEN Flatten([i \in 1..Len(props.v) |->
                               below(props.v[i].v, PropertyPath(path, props.v[i].k))])
               ELSE <<>>)
           \o (IF Get(s.v, k_type, None) = Str(<<"a", "r", "r", "a", "y">>) /\ items.t = "dict"
               THEN below(items, ItemPath(path))
               ELSE <<>>)

\* C21: in the mapping generate_edge_cases returns, every position of the
\* schema tree that received a path has an entry of its own: no two positions
\* received the same path, neither the root and a property named "value" nor
\* a property with "." in its name and a nested property.
C21_UniquePaths ==
  (op = "generate_edge_cases" /\ ret.exc = "") =>
    LET paths == PositionPaths(schema, <<>>)
    IN  /\ \A i, j \in 1..Len(paths) : paths[i] = paths[j] => i = j
        /\ Len(ret.v) = Len(paths)

\* the walk's paths below the path a: a.b for a key b
ChildPaths(sch, a) ==
  {p \in SettablePaths(sch) :
     StartsWith(p, a \o <<".">>) /\ Len(Split(p, ".")) = Len(Split(a, ".")) + 1}

\* C22: generate_sample_object raises nothing when the walk raised nothing,
\* and when the override sets the path a to a value that is no mapping and
\* the walk has a path a.b after it, the payload holds a mapping at a with
\* the key b in it.
C22_NestedAssignmentCompletes ==
  (op = "generate_sample_object" /\ generate_edge_cases(schema).exc = "") =>
    /\ ret.exc = ""
    /\ (/\ field_overrides.t = "dict"
        /\ field_overrides.v[1].v.t = "int"
        /\ ChildPaths(schema, field_overrides.v[1].k) # {}) =>
         LET a == field_overrides.v[1].k
             payload == Read(Dict(ret.v), heap)
         IN  /\ ValueAt(payload, Split(a, ".")).t = "dict"
             /\ \E p \in ChildPaths(schema, a) : ValueAt(payload, Split(p, ".")) # Missing

IsIntegerSchema(s) ==
  /\ ResolveType(s, None).schema_type.t = "str"
  /\ ResolveType(s, None).schema_type.v = <<"i", "n", "t", "e", "g", "e", "r">>
HasBound(s) == HasKey(s, k_minimum) \/ HasKey(s, k_maximum)
\* the integer catalog within [minimum, maximum], in catalog order, an absent
\* minimum being -2^63 and an absent maximum 2^63 - 1
CatalogWithin(s) ==
  SelectSeq(INTEGER_EDGE_CASES,
            LAMBDA x : /\ NumLE(Get(s, k_minimum, BigInt(TRUE, <<9223, 37203, 68547, 75808>>)), x)
                       /\ NumLE(x, Get(s, k_maximum, BigInt(FALSE, <<9223, 37203, 68547, 75807>>))))

\* C23 as stated: for every integer schema with a minimum or a maximum, the
\* candidates are exactly the integer catalog within [minimum, maximum], in
\* catalog order.
C23_CatalogWithinAsStated ==
  (op = "candidates" /\ IsIntegerSchema(schema.v) /\ HasBound(schema.v)) =>
    /\ ret.exc = ""
    /\ ret.v = CatalogWithin(schema.v)
\* C23: for every integer schema without an enum that has a minimum or a
\* maximum, the candidates are exactly the integer catalog within
\* [minimum, maximum], in catalog order, after a leading null when the schema
\* is nullable; an absent minimum counts as -2^63 and an absent maximum as
\* 2^63 - 1, and no other value is put in.
C23_CatalogWithin ==
  (op = "candidates" /\ IsIntegerSchema(schema.v) /\ HasBound(schema.v)
   /\ ~HasKey(schema.v, k_enum)) =>
    /\ ret.exc = ""
    /\ ret.v = (IF ResolveType(schema.v, None).nullable THEN <<None>> ELSE <<>>)
               \o CatalogWithin(schema.v)
\* minimum 0.5 alone keeps 1, 2^31 - 1 and 2^63 - 1
C23_MinimumOnly ==
  /\ op = "candidates"
  /\ IsIntegerSchema(schema.v)
  /\ ~HasKey(schema.v, k_enum)
  /\ ~ResolveType(schema.v, None).nullable
  /\ Get(schema.v, k_minimum, None) = FloatV(FALSE, <<0, 0, 0, 0>>, <<50000, 0>>)
  /\ ~HasKey(schema.v, k_maximum)
  /\ ret.v = <<IntV(1), BigInt(FALSE, <<0, 0, 21474, 83647>>),
               BigInt(FALSE, <<9223, 37203, 68547, 75807>>)>>

IsObjectNode(s) ==
  /\ ResolveType(s, None).schema_type.t = "str"
  /\ ResolveType(s, None).schema_type.v = <<"o", "b", "j", "e", "c", "t">>
\* the declared properties that are sampled
FirstProperties(s) == Take(Get(s, k_properties, Dict(<<>>)).v, 5)
\* x is a synthesized object: each key is one of the first 5 declared
\* properties and holds candidate 0 of that property, which has a candidate
Synthesized(x, s) ==
  /\ x.t = "dict"
  /\ \A n \in 1..Len(x.v) :
       \E j \in 1..Len(FirstProperties(s)) :
         LET cs == _get_candidates_for_type(FirstProperties(s)[j].v, None)
         IN  /\ x.v[n].k = FirstProperties(s)[j].k
             /\ cs.exc = ""
             /\ Len(cs.v) > 0
             /\ x.v[n].v.t = cs.v[1].t
             /\ x.v[n].v = cs.v[1]
\* the candidates r are the list base, followed by at most 3 synthesized
\* objects when the node has properties and by nothing when it has none
BaseThenSynthesized(r, base, s) ==
  /\ Len(r) >= Len(base)
  /\ SubSeq(r, 1, Len(base)) = base
  /\ Len(r) <= Len(base) + 3
  /\ \A i \in (Len(base) + 1)..Len(r) : Synthesized(r[i], s)
  /\ ~Truthy(Get(s, k_properties, Dict(<<>>))) => r = base

SentProbes(sch) == ProbesOf(generate_edge_cases_flat(sch))
\* the body holds the value at the dotted path
Carries(body, field, value) ==
  /\ ValueAt(body, Split(field, ".")).t = value.t
  /\ ValueAt(body, Split(field, ".")) = value

\* C25: in a scan of an endpoint with a request body schema, the body of every
\* request holds the candidate it was sent for at the path of its field, and
\* two requests sent for different candidates of one field have different
\* bodies.
C25_BodyCarriesCandidate ==
  (op = "run" /\ Truthy(schema) /\ generate_edge_cases_flat(schema).exc = "") =>
    LET probes == SentProbes(schema)
    IN  /\ \A i \in 1..Len(requests) :
             Carries(requests[i].json, probes[i].field, Read(probes[i].v, heap))
        /\ \A i, j \in 1..Len(requests) :
             (probes[i].field = probes[j].field /\ i # j)
               => requests[i].json # requests[j].json

\* the requests a run on the schema sends before it returns
RequestsOf(sch) == IF Truthy(sch) THEN Len(SentProbes(sch)) ELSE 1

\* C26: in a run, every request sent has exactly one log entry, appended
\* before the next request is sent, and the entry holds the method, the URL,
\* the query parameters and the body of the request as it was sent; no request
\* is sent twice; the report is built after the last request; an endpoint
\* without a request body schema gets exactly one request.
C26_OneEntryPerRequest ==
  (op = "run" /\ (Truthy(schema) => generate_edge_cases_flat(schema).exc = "")) =>
    /\ Len(entries) = Len(requests)
    /\ Len(requests) <= RequestsOf(schema)
    /\ report.t = "object" => Len(requests) = RequestsOf(schema)
    /\ \A i \in 1..Len(requests) :
         /\ entries[i].method = requests[i].method
         /\ entries[i].url = requests[i].url
         /\ entries[i].params = requests[i].params
         /\ Read(entries[i].json_body, heap).t = requests[i].json.t
         /\ Read(entries[i].json_body, heap) = requests[i].json

(***************************************************************************)
(* The scan service                                                        *)
(***************************************************************************)
Terminal == {"completed", "failed"}
\* the moves of a stored status
StatusMoves ==
  {<<"pending", "running">>, <<"running", "completed">>, <<"running", "failed">>}
\* what a stored scan dict holds in its status
WellFormedScan(scan) ==
  /\ scan.status \in {"pending", "running"} \cup Terminal
  /\ scan.progress = 100 <=> scan.status \in Terminal
  /\ scan.end_time # None <=> scan.status \in Terminal
  /\ scan.results # None => scan.status = "completed"

\* C27: the stored status of a scan only moves pending -> running -> completed
\* or pending -> running -> failed, and a completed or failed status never
\* changes again; progress is 100 and end_time is set exactly in the two
\* terminal states, and results are non-null only in status completed.
C27_StatusLifecycle ==
  /\ [](\A scan_id \in DOMAIN scans : WellFormedScan(scans[scan_id]))
  /\ [][\A scan_id \in DOMAIN scans \cap DOMAIN scans' :
          \/ scans'[scan_id].status = scans[scan_id].status
          \/ <<scans[scan_id].status, scans'[scan_id].status>> \in StatusMoves]_vars

\* C27 witness: a scan went through to completed and holds its results
C27_Completed ==
  \E scan_id \in DOMAIN scans :
    /\ tasks[scan_id] = "returned"
    /\ scans[scan_id].status = "completed"
    /\ scans[scan_id].progress = 100
    /\ scans[scan_id].end_time = Now
    /\ scans[scan_id].results # None

\* C28: once delete_scan(id) returned true, the id is never in the store
\* again, whatever its background run_scan does: the updates of a run that is
\* in progress or finishes later leave the store as it is, and a scan deleted
\* before its run started is never scanned.
C28_DeletedStaysDeleted ==
  /\ [](\A scan_id \in 1..Len(deleted) :
          deleted[scan_id] # "" =>
            /\ scan_id \notin DOMAIN scans
            /\ deleted[scan_id] = "queued" => tasks[scan_id] \in {"queued", "returned"})
  /\ [][\A scan_id \in 1..Len(deleted) :
          (deleted[scan_id] # "" /\ tasks'[scan_id] # tasks[scan_id])
            => scans' = scans]_vars

\* C28 witness: a scan was deleted while its run was scanning, and the run has
\* finished since
C28_DeletedWhileScanning ==
  \E scan_id \in 1..Len(deleted) :
    /\ deleted[scan_id] = "scanning"
    /\ tasks[scan_id] = "returned"
    /\ scan_id \notin DOMAIN scans

\* the response of a status poll
IsStatusResponse == response.name = "get_scan_status" /\ response.status_code = 200

\* C29: a status response never combines status pending or running with
\* progress 100 or an end_time, nor status completed with tests_executed 0.
C29_ConsistentSnapshot ==
  IsStatusResponse =>
    LET body == response.body.v IN
      /\ body.status \in {"pending", "running"}
           => (body.progress # 100 /\ body.end_time = None)
      /\ body.status = "completed" => body.tests_executed # 0

RECURSIVE TotalCommands(_)
\* the commands of a report, over all its kinds
TotalCommands(rep) ==
  IF Len(rep) = 0 THEN 0 ELSE Len(rep[1].v) + TotalCommands(Tail(rep))

\* C30: the results handler answers 404 for an id that is not stored, 400 for
\* a stored scan that is pending, running or failed, and 200 only for a
\* completed scan; the statistics.failures of that answer is the number of
\* commands over all kinds of the report of that answer.
C30_ResultsOnlyWhenCompleted ==
  /\ []((response.name = "get_scan_results" /\ response.status_code = 200) =>
          LET body == response.body.v IN
            /\ body.status = "completed"
            /\ body.statistics.failures = TotalCommands(body.report))
  /\ [][/\ (/\ handler = Idle /\ handler' = Idle
            /\ UNCHANGED <<scans, tasks>>
            /\ response'.name = "get_scan_results")
             => (response'.scan_id \notin DOMAIN scans /\ response'.status_code = 404)
        /\ (handler.name = "get_scan_results" /\ handler' = Idle)
             => /\ response'.scan_id = handler.scan_id
                /\ response'.status_code =
                     IF scans[handler.scan_id].status = "completed" THEN 200 ELSE 400]_vars

\* C30 witness: the results of a scan with failures were returned
C30_ReportReturned ==
  /\ response.name = "get_scan_results"
  /\ response.status_code = 200
  /\ response.body.v.statistics.failures = 7
  /\ TotalCommands(response.body.v.report) = 7
(***************************************************************************)
(* Specifications                                                          *)
(***************************************************************************)
InitSvcIdle ==
  /\ scans = [scan_id \in {} |-> None]
  /\ tasks = <<>>
  /\ handler = Idle
  /\ response = NoResponseYet
  /\ deleted = <<>>
InitGenIdle ==
  /\ schema = None
  /\ field_overrides = None
  /\ op = "init"
  /\ ret = None
  /\ heap = InitHeap
  /\ calls = 0
  /\ InitSvcIdle
InitClsIdle ==
  /\ requests = <<>>
  /\ reply = NoReply
  /\ result = DefaultResult
  /\ classification = None
InitRepIdle ==
  /\ entries = <<>>
  /\ report = None
  /\ console = None

\* classify, applied to every outcome
InitClassify ==
  /\ InitGenIdle
  /\ InitRepIdle
  /\ requests = <<>>
  /\ reply = NoReply
  /\ classification = None
  /\ \E e \in ErrorTexts, s \in StatusCodes, h \in ResponseHeaders, b \in ResponseBodies :
       result = HttpExecutionResult(s, b, e, h, s # None)
NextClassify == ClassifyResult
SpecClassify == InitClassify /\ [][NextClassify]_vars

\* a scan and its report
InitReport == InitGenIdle /\ InitClsIdle /\ InitRepIdle
NextReport ==
  \/ \E e \in ScanEntries : AppendEntry(e)
  \/ GenerateReport
SpecReport == InitReport /\ [][NextReport]_vars

\* the executions of a scan, grouped in whatever order they arrive
InitRegroup == InitGenIdle /\ InitClsIdle /\ InitRepIdle
NextRegroup ==
  \/ \E e \in FedEntries : AppendEntry(e)
  \/ GenerateReport
SpecRegroup == InitRegroup /\ [][NextRegroup]_vars

\* to_curl, applied to one failing execution of every request shape
InitCurl ==
  /\ InitGenIdle
  /\ InitClsIdle
  /\ report = None
  /\ console = None
  /\ \E e \in CurlEntries : entries = <<e>>
NextCurl == GenerateReport
SpecCurl == InitCurl /\ [][NextCurl]_vars

\* execute_request on every reply of the transport, and classify on its outcome
InitExecute == InitGenIdle /\ InitClsIdle /\ InitRepIdle
NextExecute ==
  \/ \E timeout \in TimeoutTexts, sent \in Replies : ExecuteRequest(timeout, sent)
  \/ ClassifyResult
SpecExecute == InitExecute /\ [][NextExecute]_vars

\* a run of the scan loop on one endpoint
InitRun ==
  /\ schema \in RunSchemas
  /\ field_overrides = None
  /\ op = "init"
  /\ ret = None
  /\ heap = InitHeap
  /\ calls = 0
  /\ InitClsIdle
  /\ InitRepIdle
  /\ InitSvcIdle
NextRun ==
  \/ \E sent \in RunReplies : RunRequest(sent)
  \/ \E sent \in RunReplies : RunBare(sent)
  \/ RunRaises
  \/ RunReturn
SpecRun == InitRun /\ [][NextRun]_vars

\* the command line: a scan, its report, and what main shows for it
InitCli == InitGenIdle /\ InitClsIdle /\ InitRepIdle
NextCli ==
  \/ console = None /\ \E e \in FedEntries : AppendEntry(e)
  \/ console = None /\ report = None /\ GenerateReport
  \/ Main
  \/ MainFails
SpecCli == InitCli /\ [][NextCli]_vars

\* the scan service: the handlers on the event loop and the background scans
InitService == InitGenIdle /\ InitClsIdle /\ InitRepIdle
NextService ==
  \/ \E url \in {None, Str(DivideUrl)} : StartScan(url)
  \/ \E scan_id \in AskedIds : GetScanStatus(scan_id)
  \/ ReadScanStatus
  \/ \E scan_id \in AskedIds : GetScanResults(scan_id)
  \/ ReadScanResults
  \/ \E scan_id \in AskedIds : DeleteScan(scan_id)
  \/ \E scan_id \in 1..MaxScans : RunScanGet(scan_id)
  \/ \E scan_id \in 1..MaxScans : RunScanRunning(scan_id)
  \/ \E scan_id \in 1..MaxScans, results \in ScanOutcomes : RunScanCompleted(scan_id, results)
  \/ \E scan_id \in 1..MaxScans : RunScanFailed(scan_id)
SpecService == InitService /\ [][NextService]_vars

\* _get_candidates_for_type, applied to every scalar schema node
InitCandidates ==
  /\ schema \in ScalarNodes
  /\ field_overrides = None
  /\ op = "init"
  /\ ret = None
  /\ heap = InitHeap
  /\ calls = 0
  /\ InitClsIdle
  /\ InitRepIdle
  /\ InitSvcIdle
NextCandidates == GetCandidates
SpecCandidates == InitCandidates /\ [][NextCandidates]_vars

\* the generator functions, called in any order on one schema
Init ==
  /\ schema \in Schemas
  /\ field_overrides = None
  /\ op = "init"
  /\ ret = None
  /\ heap = InitHeap
  /\ calls = 0
  /\ InitClsIdle
  /\ InitRepIdle
  /\ InitSvcIdle
Next ==
  \/ GetCandidates
  \/ GenerateEdgeCases
  \/ GenerateEdgeCasesFlat
  \/ \E overrides \in Overrides(schema, calls + 1) : GenerateSampleObject(overrides)
Spec == Init /\ [][Next]_vars
====
